---- MODULE Spec2Model ----
(***************************************************************************)
(* Take-sequencing and session-history engine of field-takes               *)
(* (src/src/app/page.tsx): the row list, the draft, the undo/redo stacks,  *)
(* the project list and the handlers that change them.                     *)
(*                                                                         *)
(* JavaScript strings are sequences of one-character strings, so that      *)
(* parsing, zero-padding and locale comparison are computed, not assumed.  *)
(***************************************************************************)
EXTENDS Integers, Sequences, FiniteSets, TLC

VARIABLES rows, draft, past, future, projects, currentId, reading, nextId,
          lastOp, before, run, undone, probe, jsonReading, readStart, extracted

vars == <<rows, draft, past, future, projects, currentId, reading, nextId,
          lastOp, before, run, undone, probe, jsonReading, readStart, extracted>>

(***************************************************************************)
(* Bounds of the model                                                     *)
(***************************************************************************)
MaxHist == 2
MaxId == 4
MaxRun == 2
MaxNum == 3
MaxProbeRows == 2
MaxTokenLen == 3
MaxStepperNum == 7
MaxDraftRows == 1

(***************************************************************************)
(* Strings                                                                 *)
(***************************************************************************)
Digits == <<"0", "1", "2", "3", "4", "5", "6", "7", "8", "9">>

IsDigit(c) == \E i \in 1..10 : Digits[i] = c

DigitVal(c) == (CHOOSE i \in 1..10 : Digits[i] = c) - 1

\* String(n) for a non-negative integer
RECURSIVE NatStr(_)
NatStr(n) == IF n < 10 THEN <<Digits[n + 1]>>
             ELSE NatStr(n \div 10) \o <<Digits[(n % 10) + 1]>>

\* String(n) for an integer
NumStr(n) == IF n < 0 THEN <<"-">> \o NatStr(0 - n) ELSE NatStr(n)

\* value of a sequence of digits, read left to right
RECURSIVE DigitsVal(_)
DigitsVal(s) == IF s = <<>> THEN 0
                ELSE 10 * DigitsVal(SubSeq(s, 1, Len(s) - 1)) + DigitVal(s[Len(s)])

\* the longest prefix of s made of digits
RECURSIVE DigitPrefix(_)
DigitPrefix(s) == IF s = <<>> \/ ~IsDigit(s[1]) THEN <<>>
                  ELSE <<s[1]>> \o DigitPrefix(Tail(s))

IsSpace(c) == c \in {" ", "\t", "\n", "\r"}

RECURSIVE TrimStart(_)
TrimStart(s) == IF s # <<>> /\ IsSpace(s[1]) THEN TrimStart(Tail(s)) ELSE s

\* parseInt(s, 10): leading white space, an optional sign, then the longest
\* run of digits; NaN when there is no digit.
parseInt(s) ==
  LET t == TrimStart(s)
      neg == t # <<>> /\ t[1] = "-"
      u == IF t # <<>> /\ t[1] \in {"-", "+"} THEN Tail(t) ELSE t
      d == DigitPrefix(u)
  IN IF d = <<>> THEN [nan |-> TRUE, val |-> 0]
     ELSE [nan |-> FALSE, val |-> IF neg THEN 0 - DigitsVal(d) ELSE DigitsVal(d)]

\* s.padStart(n, "0")
RECURSIVE padStart(_, _)
padStart(s, n) == IF Len(s) >= n THEN s ELSE padStart(<<"0">> \o s, n)

startsWith(s, p) == Len(s) >= Len(p) /\ SubSeq(s, 1, Len(p)) = p

\* s.replace(/\D/g, "")
RECURSIVE StripNonDigits(_)
StripNonDigits(s) == IF s = <<>> THEN <<>>
                     ELSE (IF IsDigit(s[1]) THEN <<s[1]>> ELSE <<>>)
                          \o StripNonDigits(Tail(s))

\* the part of s before the first occurrence of c (all of s when c is absent)
UpTo(s, c) ==
  LET I == {i \in 1..Len(s) : s[i] = c}
  IN IF I = {} THEN s ELSE SubSeq(s, 1, (CHOOSE i \in I : \A j \in I : i <= j) - 1)

HasChar(s, c) == \E i \in 1..Len(s) : s[i] = c

\* s.split(c) for a one-character separator c
RECURSIVE split(_, _)
split(s, c) == IF ~HasChar(s, c) THEN <<s>>
               ELSE <<UpTo(s, c)>> \o split(SubSeq(s, Len(UpTo(s, c)) + 2, Len(s)), c)

\* s.includes(sub)
includes(s, sub) == \E i \in 1..(Len(s) - Len(sub) + 1) : SubSeq(s, i, i + Len(sub) - 1) = sub

\* s.trim().length > 0
NonBlank(s) == \E i \in 1..Len(s) : ~IsSpace(s[i])

\* s.split(/\r?\n/): a carriage return right before a line feed belongs to the
\* separator
splitLines(s) ==
  LET parts == split(s, "\n")
      chop(i) == IF i < Len(parts) /\ parts[i] # <<>> /\ parts[i][Len(parts[i])] = "\r"
                 THEN SubSeq(parts[i], 1, Len(parts[i]) - 1)
                 ELSE parts[i]
  IN [i \in 1..Len(parts) |-> chop(i)]

\* a.join(c)
RECURSIVE join(_, _)
join(a, c) == IF a = <<>> THEN <<>>
              ELSE IF Len(a) = 1 THEN a[1]
              ELSE a[1] \o <<c>> \o join(Tail(a), c)

\* Collation order of the characters the model uses, as the ICU collator
\* behind localeCompare(_, "ja") orders them: punctuation, digits, Latin
\* letters, kana.
CollationOrder ==
  <<" ", "_", "-", ",", "0", "1", "2", "3", "4", "5", "6", "7", "8", "9",
    "a", "b", "c", "d", "e", "f", "g", "x",
    "U+30AA", "U+30EA", "U+30F3", "U+30FC">>

Rank(c) == IF \E i \in 1..Len(CollationOrder) : CollationOrder[i] = c
           THEN CHOOSE i \in 1..Len(CollationOrder) : CollationOrder[i] = c
           ELSE Len(CollationOrder) + 1

\* a.localeCompare(b, "ja"): negative, zero or positive
RECURSIVE localeCompare(_, _)
localeCompare(a, b) ==
  IF a = <<>> THEN (IF b = <<>> THEN 0 ELSE -1)
  ELSE IF b = <<>> THEN 1
  ELSE IF Rank(a[1]) < Rank(b[1]) THEN -1
  ELSE IF Rank(a[1]) > Rank(b[1]) THEN 1
  ELSE localeCompare(Tail(a), Tail(b))

(***************************************************************************)
(* Utils                                                                   *)
(***************************************************************************)
OK == <<"O", "K">>
NG == <<"N", "G">>
KEEP == <<"K", "E", "E", "P">>

\* the sentinel token of the cut role: the katakana word U+30AA U+30F3 U+30EA
\* U+30FC, one element per code point
OnlyToken == <<"U+30AA", "U+30F3", "U+30EA", "U+30FC">>

SUFFIXES == <<<<>>, <<"a">>, <<"b">>, <<"c">>, <<"d">>, <<"e">>, <<"f">>, <<"g">>>>

\* the day the session runs on, as todayPrefix() formats it
todayPrefix == <<"2", "6", "1", "1", "0", "2">>

Max(S) == CHOOSE m \in S : \A n \in S : n <= m

nextFileNoAnyDay(rs) ==
  LET second(i) == LET parts == split(rs[i].fileNo, "_")
                   IN IF Len(parts) < 2 \/ parts[2] = <<>> THEN <<"0">> ELSE parts[2]
      parsed(i) == parseInt(StripNonDigits(second(i)))
      nums == {parsed(i).val : i \in {j \in 1..Len(rs) : ~parsed(j).nan}}
      max == IF nums # {} THEN Max(nums) ELSE 0
  IN IF rs = <<>> THEN todayPrefix \o <<"_", "0", "0", "1">>
     ELSE todayPrefix \o <<"_">> \o padStart(NatStr(max + 1), 3)

\* Numbers of nextFileNo are kept as their decimal digits without leading
\* zeros, since a counter read off a file number has no upper limit. A
\* Number is a double: every integer up to 2^53 is one, and from 2^53 up to
\* 2^54 (as far as these definitions go) only the even ones are.
TwoTo53 == <<"9", "0", "0", "7", "1", "9", "9", "2", "5", "4", "7", "4", "0", "9", "9", "2">>

\* a < b, for digits without leading zeros
lessThan(a, b) ==
  \/ Len(a) < Len(b)
  \/ /\ Len(a) = Len(b)
     /\ \E i \in 1..Len(a) :
          /\ DigitVal(a[i]) < DigitVal(b[i])
          /\ \A j \in 1..(i - 1) : a[j] = b[j]

\* the digits of the integer after the one of ds
RECURSIVE succ(_)
succ(ds) ==
  IF ds = <<>> THEN <<"1">>
  ELSE IF ds[Len(ds)] = "9" THEN succ(SubSeq(ds, 1, Len(ds) - 1)) \o <<"0">>
  ELSE SubSeq(ds, 1, Len(ds) - 1) \o <<Digits[DigitVal(ds[Len(ds)]) + 2]>>

\* the double nearest to an integer from 2^53 up, ties going to the one
\* with the even mantissa (the multiple of 4)
nearestDouble(ds) ==
  LET n == Len(ds)
      mod4 == (10 * DigitVal(ds[n - 1]) + DigitVal(ds[n])) % 4
  IN CASE mod4 \in {0, 2} -> ds
       [] mod4 = 3 -> succ(ds)
       [] mod4 = 1 -> SubSeq(ds, 1, n - 1) \o <<Digits[DigitVal(ds[n])]>>

\* parseInt(s, 10) of a non-empty string of digits
parseDigits(s) ==
  LET I == {i \in 1..Len(s) : s[i] # "0"}
      ds == IF I = {} THEN <<"0">>
            ELSE SubSeq(s, CHOOSE i \in I : \A j \in I : i <= j, Len(s))
  IN IF lessThan(ds, TwoTo53) THEN ds ELSE nearestDouble(ds)

\* max + 1 for a Number max
plusOne(max) == IF lessThan(max, TwoTo53) THEN succ(max) ELSE nearestDouble(succ(max))

nextFileNo(rs) ==
  LET today == {i \in 1..Len(rs) : startsWith(rs[i].fileNo, todayPrefix)}
      second(i) == LET parts == split(rs[i].fileNo, "_")
                   IN IF Len(parts) < 2 \/ parts[2] = <<>> THEN <<"0">> ELSE parts[2]
      digits(i) == StripNonDigits(second(i))
      nums == {parseDigits(digits(i)) : i \in {j \in today : digits(j) # <<>>}}
      max == IF nums # {} THEN CHOOSE m \in nums : \A n \in nums : ~lessThan(m, n)
             ELSE <<"0">>
  IN IF today = {} THEN todayPrefix \o <<"_", "0", "0", "1">>
     ELSE todayPrefix \o <<"_">> \o padStart(plusOne(max), 3)

IsSuffixLetter(c) == c \in {"a", "b", "c", "d", "e", "f", "g", "A", "B", "C", "D", "E", "F", "G"}

\* value matches /^(\d+)([a-g]?)$/
MatchesNumSuffix(v) ==
  LET d == DigitPrefix(v)
      r == SubSeq(v, Len(d) + 1, Len(v))
  IN d # <<>> /\ (r = <<>> \/ (Len(r) = 1 /\ IsSuffixLetter(r[1])))

OrZero(p) == IF p.nan THEN 0 ELSE p.val

splitNumAndSuffix(value) ==
  IF value = OnlyToken THEN [num |-> -1, suffix |-> <<>>]
  ELSE IF ~MatchesNumSuffix(value)
       THEN [num |-> OrZero(parseInt(IF value = <<>> THEN <<"0">> ELSE value)),
             suffix |-> <<>>]
  ELSE LET d == DigitPrefix(value)
       IN [num |-> DigitsVal(d), suffix |-> SubSeq(value, Len(d) + 1, Len(value))]

combine(num, suffix) ==
  IF num = -1 THEN OnlyToken
  ELSE NatStr(IF num < 1 THEN 1 ELSE num) \o suffix

(***************************************************************************)
(* CSV helpers                                                             *)
(***************************************************************************)
\* new Date().toISOString() at the instant the handlers of the session run
nowISO == <<"2", "0", "2", "6", "-", "1", "1", "-", "0", "2", "T", "0", "9", ":", "0", "0", "Z">>

\* the property names of rows and projects, which are also the column names
\* of the CSV
Key ==
  [id |-> <<"i", "d">>,
   createdAt |-> <<"c", "r", "e", "a", "t", "e", "d", "A", "t">>,
   updatedAt |-> <<"u", "p", "d", "a", "t", "e", "d", "A", "t">>,
   fileNo |-> <<"f", "i", "l", "e", "N", "o">>,
   sceneNo |-> <<"s", "c", "e", "n", "e", "N", "o">>,
   cutNo |-> <<"c", "u", "t", "N", "o">>,
   takeNo |-> <<"t", "a", "k", "e", "N", "o">>,
   status |-> <<"s", "t", "a", "t", "u", "s">>,
   mics |-> <<"m", "i", "c", "s">>,
   note |-> <<"n", "o", "t", "e">>,
   name |-> <<"n", "a", "m", "e">>,
   rows |-> <<"r", "o", "w", "s">>]

H_mic(i) == <<"m", "i", "c">> \o NatStr(i)

\* h.replace(/^"|"$/g, "")
stripQuotes(h) ==
  LET a == IF h # <<>> /\ h[1] = "\"" THEN Tail(h) ELSE h
  IN IF a # <<>> /\ a[Len(a)] = "\"" THEN SubSeq(a, 1, Len(a) - 1) ELSE a

\* one pass of the body of the for loop of fromCSV's tokenizer, at position
\* i of the line: st holds cols, cur and inQ, and skip tells that the pass
\* before has stepped i over this position (the second of two double quotes)
loopBody(line, st, i) ==
  LET ch == line[i]
  IN IF st.skip THEN [st EXCEPT !.skip = FALSE]
     ELSE IF st.inQ
          THEN IF ch = "\"" /\ i + 1 <= Len(line) /\ line[i + 1] = "\""
               THEN [st EXCEPT !.cur = Append(@, "\""), !.skip = TRUE]
               ELSE IF ch = "\"" THEN [st EXCEPT !.inQ = FALSE]
               ELSE [st EXCEPT !.cur = Append(@, ch)]
          ELSE IF ch = "\"" THEN [st EXCEPT !.inQ = TRUE]
               ELSE IF ch = "," THEN [st EXCEPT !.cols = Append(@, st.cur), !.cur = <<>>]
               ELSE [st EXCEPT !.cur = Append(@, ch)]

\* the for loop over the positions lo..hi of the line, from the state st: the
\* passes over lo..mid come first and those over mid+1..hi go on from their
\* state (the test of half is always true, it has the first passes computed
\* before the later ones start)
RECURSIVE loopOver(_, _, _, _)
loopOver(line, lo, hi, st) ==
  IF lo > hi THEN st
  ELSE IF lo = hi THEN loopBody(line, st, lo)
  ELSE LET mid == (lo + hi) \div 2
           half == loopOver(line, lo, mid, st)
       IN IF half.skip \in BOOLEAN THEN loopOver(line, mid + 1, hi, half) ELSE half

\* the quoted-field tokenizer of fromCSV: the columns of one line
tokenize(line) ==
  LET st == loopOver(line, 1, Len(line),
                     [cols |-> <<>>, cur |-> <<>>, inQ |-> FALSE, skip |-> FALSE])
  IN Append(st.cols, st.cur)

\* rec[name] || "" for the record built from the headers and the columns of
\* one line: a later column of the same name replaces an earlier one
recField(headers, cols, name) ==
  LET I == {i \in 1..Len(headers) : headers[i] = name}
      k == CHOOSE m \in I : \A n \in I : n <= m
  IN IF I = {} \/ k > Len(cols) THEN <<>> ELSE cols[k]

OrElse(v, dflt) == IF v = <<>> THEN dflt ELSE v

\* fromCSV(csv), the ids of the decoded rows minted from firstId on
fromCSV(csv, firstId) ==
  LET lines == SelectSeq(splitLines(csv), NonBlank)
      headers == LET hs == split(lines[1], ",")
                 IN [i \in 1..Len(hs) |-> stripQuotes(hs[i])]
      decode(k) ==
        LET cols == tokenize(lines[k + 1])
        IN [id |-> firstId + k - 1,
            createdAt |-> OrElse(recField(headers, cols, Key.createdAt), nowISO),
            updatedAt |-> nowISO,
            fileNo |-> recField(headers, cols, Key.fileNo),
            sceneNo |-> recField(headers, cols, Key.sceneNo),
            cutNo |-> recField(headers, cols, Key.cutNo),
            takeNo |-> recField(headers, cols, Key.takeNo),
            status |-> OrElse(recField(headers, cols, Key.status), KEEP),
            mics |-> [i \in 1..8 |-> recField(headers, cols, H_mic(i))],
            note |-> recField(headers, cols, Key.note)]
  IN IF Len(lines) < 2 THEN <<>>
     ELSE [k \in 1..(Len(lines) - 1) |-> decode(k)]

CsvHeaders ==
  <<Key.createdAt, Key.fileNo, Key.sceneNo, Key.cutNo, Key.takeNo, Key.status>>
  \o [i \in 1..8 |-> H_mic(i)] \o <<Key.note>>

escNoQuotes(s) ==
  [i \in 1..Len(s) |-> IF s[i] = "\n" THEN " " ELSE s[i]]

\* esc: (s ?? "").toString().replaceAll('"', '""').replaceAll("\n", " ")
RECURSIVE esc(_)
esc(s) == IF s = <<>> THEN <<>>
          ELSE (IF s[1] = "\"" THEN <<"\"", "\"">>
                ELSE IF s[1] = "\n" THEN <<" ">>
                ELSE <<s[1]>>) \o esc(Tail(s))

\* (r.mics || []).concat(Array(8).fill("")).slice(0, 8)
eightMics(mics) == [i \in 1..8 |-> IF i <= Len(mics) THEN mics[i] ELSE <<>>]

toCSV(rs) ==
  LET arr(r) == <<r.createdAt, r.fileNo, r.sceneNo, r.cutNo, r.takeNo, r.status>>
                \o eightMics(r.mics) \o <<r.note>>
      line(r) == join([k \in 1..15 |-> <<"\"">> \o esc(arr(r)[k]) \o <<"\"">>], ",")
  IN join(<<join(CsvHeaders, ",")>> \o [i \in 1..Len(rs) |-> line(rs[i])], "\n")

(***************************************************************************)
(* JSON.parse, on texts without backslash escapes, fractions or exponents.  *)
(* A parsed value is [t, v]: t names its type, v holds the characters of a  *)
(* string, the value of a number or a boolean, the elements of an array,    *)
(* or the <<key, value>> members of an object in the order of the text.     *)
(***************************************************************************)
JSONValue(t, v) == [t |-> t, v |-> v]

\* the outcome of parsing one value: ok, the value, the position after it
Parsed(val, next) == [ok |-> TRUE, val |-> val, next |-> next]
SyntaxError == [ok |-> FALSE, val |-> JSONValue("undefined", <<>>), next |-> 0]

\* the first position from i on that holds no JSON white space (Len + 1 if
\* there is none)
skipWs(t, i) ==
  LET J == {j \in i..Len(t) : t[j] \notin {" ", "\t", "\n", "\r"}}
  IN IF J = {} THEN Len(t) + 1 ELSE CHOOSE j \in J : \A k \in J : j <= k

\* the text reads lit from position i
readsAt(t, i, lit) == i + Len(lit) - 1 <= Len(t) /\ SubSeq(t, i, i + Len(lit) - 1) = lit

\* a string whose opening quote is just before i: up to the closing quote,
\* with no control character in between
parseString(t, i) ==
  LET Q == {j \in i..Len(t) : t[j] = "\""}
      k == CHOOSE j \in Q : \A m \in Q : j <= m
  IN IF Q = {} THEN SyntaxError
     ELSE IF \E j \in i..(k - 1) : t[j] \in {"\n", "\r", "\t", "\\"} THEN SyntaxError
     ELSE Parsed(JSONValue("string", SubSeq(t, i, k - 1)), k + 1)

\* an integer at i: an optional minus sign, then digits without a leading 0
parseNumber(t, i) ==
  LET neg == t[i] = "-"
      d == IF neg THEN i + 1 ELSE i
      ds == DigitPrefix(SubSeq(t, d, Len(t)))
  IN IF ds = <<>> \/ (Len(ds) > 1 /\ ds[1] = "0") THEN SyntaxError
     ELSE Parsed(JSONValue("number", IF neg THEN 0 - DigitsVal(ds) ELSE DigitsVal(ds)), d + Len(ds))

RECURSIVE parseValue(_, _), parseElements(_, _, _), parseMembers(_, _, _)

\* the value that starts at the first non-blank position from i on
parseValue(t, i) ==
  LET j == skipWs(t, i)
  IN IF j > Len(t) THEN SyntaxError
     ELSE IF t[j] = "{" THEN
            (IF skipWs(t, j + 1) <= Len(t) /\ t[skipWs(t, j + 1)] = "}"
             THEN Parsed(JSONValue("object", <<>>), skipWs(t, j + 1) + 1)
             ELSE parseMembers(t, j + 1, <<>>))
     ELSE IF t[j] = "[" THEN
            (IF skipWs(t, j + 1) <= Len(t) /\ t[skipWs(t, j + 1)] = "]"
             THEN Parsed(JSONValue("array", <<>>), skipWs(t, j + 1) + 1)
             ELSE parseElements(t, j + 1, <<>>))
     ELSE IF t[j] = "\"" THEN parseString(t, j + 1)
     ELSE IF readsAt(t, j, <<"n", "u", "l", "l">>) THEN Parsed(JSONValue("null", <<>>), j + 4)
     ELSE IF readsAt(t, j, <<"t", "r", "u", "e">>) THEN Parsed(JSONValue("boolean", TRUE), j + 4)
     ELSE IF readsAt(t, j, <<"f", "a", "l", "s", "e">>) THEN Parsed(JSONValue("boolean", FALSE), j + 5)
     ELSE IF t[j] = "-" \/ IsDigit(t[j]) THEN parseNumber(t, j)
     ELSE SyntaxError

\* the elements of an array from i on, those read so far in acc
parseElements(t, i, acc) ==
  LET e == parseValue(t, i)
      j == skipWs(t, e.next)
  IN IF ~e.ok \/ j > Len(t) THEN SyntaxError
     ELSE IF t[j] = "," THEN parseElements(t, j + 1, Append(acc, e.val))
     ELSE IF t[j] = "]" THEN Parsed(JSONValue("array", Append(acc, e.val)), j + 1)
     ELSE SyntaxError

\* the members of an object from i on, those read so far in acc
parseMembers(t, i, acc) ==
  LET q == skipWs(t, i)
      key == IF q <= Len(t) /\ t[q] = "\"" THEN parseString(t, q + 1) ELSE SyntaxError
      c == skipWs(t, key.next)
      e == IF key.ok /\ c <= Len(t) /\ t[c] = ":" THEN parseValue(t, c + 1) ELSE SyntaxError
      j == skipWs(t, e.next)
  IN IF ~e.ok \/ j > Len(t) THEN SyntaxError
     ELSE IF t[j] = "," THEN parseMembers(t, j + 1, Append(acc, <<key.val.v, e.val>>))
     ELSE IF t[j] = "}" THEN Parsed(JSONValue("object", Append(acc, <<key.val.v, e.val>>)), j + 1)
     ELSE SyntaxError

\* JSON.parse(text): one value and nothing but white space after it
JSONparse(t) ==
  LET r == parseValue(t, 1)
  IN IF r.ok /\ skipWs(t, r.next) > Len(t) THEN r ELSE SyntaxError

\* obj[key] of a parsed value: the last member of that name of an object,
\* undefined for a missing member or a value that has no members
member(o, key) ==
  LET I == IF o.t = "object" THEN {i \in 1..Len(o.v) : o.v[i][1] = key} ELSE {}
  IN IF I = {} THEN JSONValue("undefined", <<>>) ELSE o.v[CHOOSE i \in I : \A j \in I : j <= i][2]

(***************************************************************************)
(* Main                                                                    *)
(***************************************************************************)
compareByFileNo(a, b) == localeCompare(a.fileNo, b.fileNo)

\* Array.prototype.sort(compareByFileNo): a stable sort
InsertSorted(s, x) ==
  LET k == Cardinality({i \in 1..Len(s) : compareByFileNo(s[i], x) <= 0})
  IN SubSeq(s, 1, k) \o <<x>> \o SubSeq(s, k + 1, Len(s))

RECURSIVE sort(_)
sortNot(s) == s

sort(s) == IF s = <<>> THEN <<>>
           ELSE InsertSorted(sort(SubSeq(s, 1, Len(s) - 1)), s[Len(s)])

filterOutFirst(s, id) == Tail(s)

filterOutFrom(s, id) == SelectSeq(s, LAMBDA r : r.id < id)

\* p.filter((r) => r.id !== id)
filterOut(s, id) == SelectSeq(s, LAMBDA r : r.id # id)

EmptyMics == <<<<>>, <<>>, <<>>, <<>>, <<>>, <<>>, <<>>, <<>>>>

\* a stored row with the given file number, as addRow makes it from the
\* initial draft
RowWith(id, fileNo) ==
  [id |-> id, createdAt |-> nowISO, updatedAt |-> nowISO, fileNo |-> fileNo,
   sceneNo |-> <<"1">>, cutNo |-> <<"1">>, takeNo |-> <<"1">>, status |-> KEEP,
   mics |-> EmptyMics, note |-> <<>>]

\* the names the handlers give to projects: of the project made at startup
\* or after the last one is deleted, of a new project, of an imported one,
\* and what duplicateProject appends
Untitled == <<"U+7121", "U+984C", "U+30D7", "U+30ED", "U+30B8", "U+30A7", "U+30AF", "U+30C8">>
NewProjectName == <<"U+65B0", "U+898F", "U+30D7", "U+30ED", "U+30B8", "U+30A7", "U+30AF", "U+30C8">>
ImportedName == <<"U+30A4", "U+30F3", "U+30DD", "U+30FC", "U+30C8">>
CopySuffix == <<" ", "U+30B3", "U+30D4", "U+30FC">>

\* the draft of useState, before any effect has run
InitialDraft ==
  [fileNo |-> <<>>, sceneNum |-> 1, sceneSuffix |-> <<>>, cutNum |-> 1,
   cutSuffix |-> <<>>, takeNum |-> 1, status |-> KEEP, mics |-> EmptyMics,
   note |-> <<>>]

autoFileNoAlways(d, rs) == [d EXCEPT !.fileNo = nextFileNo(rs)]

\* the effect "fileNo auto after rows change", run after a render in which
\* the row list changed
autoFileNo(d, rs) == IF d.fileNo = <<>> THEN [d EXCEPT !.fileNo = nextFileNo(rs)] ELSE d

\* the effect "persist rows into current project", run after a render in
\* which the row list or the current project changed
persist(ps, cur, rs) ==
  IF cur = 0 THEN ps
  ELSE [i \in 1..Len(ps) |-> IF ps[i].id = cur THEN [ps[i] EXCEPT !.rows = rs] ELSE ps[i]]

snapRowsOnly == [rows |-> rows, draft |-> InitialDraft]

snap == [rows |-> rows, draft |-> draft]

\* what the last handler started from; lastOp and before record the last step
\* for the properties and are read by no handler. So are readStart, which
\* holds for each file read in flight (reading) the rows the read started
\* with, and extracted, the ids of the rows editRow has taken out. undone holds the rows and
\* the draft that the last handler, if it was an undo that found a snapshot
\* to restore, was pressed in, and is empty after any other handler.
Started == [rows |-> rows, draft |-> draft, past |-> past, future |-> future,
            undone |-> undone, reading |-> reading, readStart |-> readStart,
            projects |-> projects, currentId |-> currentId,
            jsonReading |-> jsonReading]

\* run follows the present run of n mutations (add, confirmed delete,
\* edit-extraction, counter reset) followed by u presses of undo, and keeps
\* the rows and the draft the run started from. A mutation after an undo, or
\* one beyond MaxRun, starts a new run of one mutation at the state it found;
\* any other handler, or an undo beyond the n-th, starts an empty run at the
\* state it leaves. Like lastOp and before, it is read by no handler.
RunFrom(r, d) == [base |-> [rows |-> r, draft |-> d], n |-> 0, u |-> 0]

RunMutated ==
  IF run.u = 0 /\ run.n < MaxRun
  THEN [run EXCEPT !.n = @ + 1]
  ELSE [base |-> [rows |-> rows, draft |-> draft], n |-> 1, u |-> 0]

RunUndone(r, d) ==
  IF run.u < run.n THEN [run EXCEPT !.u = @ + 1] ELSE RunFrom(r, d)

\* The state once the component has mounted on an empty store: the startup
\* effect has created the untitled project and made it current (0 stands for
\* an undefined currentId), the auto-fill effect has filled the file number.
\* probe holds the argument and the result of a call of one of the pure
\* functions of the page (Utils and CSV helpers) made on its own, outside
\* any handler; the handlers leave it alone
NoProbe == [fn |-> "none", arg |-> <<>>, res |-> <<>>]

Mounted ==
  /\ rows = <<>>
  /\ draft = autoFileNo(InitialDraft, <<>>)
  /\ past = <<>>
  /\ future = <<>>
  /\ projects = <<[id |-> 1, name |-> Untitled, rows |-> <<>>]>>
  /\ currentId = 1
  /\ reading = <<>>
  /\ nextId = 2
  /\ lastOp = "init"
  /\ before = [rows |-> <<>>, draft |-> InitialDraft, past |-> <<>>, future |-> <<>>,
               undone |-> <<>>, reading |-> <<>>, readStart |-> <<>>,
               projects |-> <<>>, currentId |-> 0, jsonReading |-> <<>>]
  /\ run = RunFrom(rows, draft)
  /\ undone = <<>>
  /\ jsonReading = <<>>
  /\ readStart = <<>>
  /\ extracted = {}

Init == Mounted /\ probe = NoProbe

\* file numbers the operator types into the file-number field
FileNoInputs == { <<>> }

\* onChange of the file-number input
typeFileNo(s) ==
  /\ s # draft.fileNo
  /\ draft' = [draft EXCEPT !.fileNo = s]
  /\ UNCHANGED <<rows, past, future, projects, currentId, reading, nextId>>
  /\ lastOp' = "typeFileNo"
  /\ before' = Started
  /\ UNCHANGED <<probe, jsonReading, readStart, extracted>>
  /\ undone' = <<>>
  /\ run' = RunFrom(rows', draft')

StatusInputs == {OK}

\* onClick of a status button
setStatus(s) ==
  /\ s # draft.status
  /\ draft' = [draft EXCEPT !.status = s]
  /\ UNCHANGED <<rows, past, future, projects, currentId, reading, nextId>>
  /\ lastOp' = "setStatus"
  /\ before' = Started
  /\ UNCHANGED <<probe, jsonReading, readStart, extracted>>
  /\ undone' = <<>>
  /\ run' = RunFrom(rows', draft')

pushHistory ==
  /\ past' = Append(past, snap)
  /\ future' = <<>>

incompleteNever(fileNo, sceneStr, cutStr, takeStr) == FALSE

\* the validation of addRow: a required field is missing
incomplete(fileNo, sceneStr, cutStr, takeStr) ==
  fileNo = <<>> \/ sceneStr = <<>> \/ cutStr = <<>> \/ takeStr = <<>>

nextDraftStaleRows(d, newRows) ==
  IF d.status = OK
  THEN [d EXCEPT !.cutNum = IF d.cutNum = -1 THEN 1 ELSE d.cutNum + 1, !.cutSuffix = <<>>,
                 !.takeNum = 1, !.fileNo = nextFileNo(rows)]
  ELSE [d EXCEPT !.takeNum = d.takeNum + 1, !.fileNo = nextFileNo(rows)]

nextDraftCutAfterNG(d, newRows) ==
  IF d.status \in {OK, NG}
  THEN [d EXCEPT !.cutNum = IF d.cutNum = -1 THEN 1 ELSE d.cutNum + 1, !.cutSuffix = <<>>,
                 !.takeNum = 1, !.fileNo = nextFileNo(newRows)]
  ELSE [d EXCEPT !.takeNum = d.takeNum + 1, !.fileNo = nextFileNo(newRows)]

nextDraftOnlyAfterFirst(d, newRows) ==
  IF d.status = OK
  THEN [d EXCEPT !.cutNum = IF d.cutNum = 1 THEN -1 ELSE IF d.cutNum = -1 THEN 1 ELSE d.cutNum + 1,
                 !.cutSuffix = <<>>, !.takeNum = 1, !.fileNo = nextFileNo(newRows)]
  ELSE [d EXCEPT !.takeNum = d.takeNum + 1, !.fileNo = nextFileNo(newRows)]

nextDraftTakeStays(d, newRows) ==
  IF d.status = OK
  THEN [d EXCEPT
          !.cutNum = IF d.cutNum = -1 THEN 1 ELSE d.cutNum + 1,
          !.cutSuffix = <<>>,
          !.takeNum = 1,
          !.fileNo = nextFileNo(newRows)]
  ELSE [d EXCEPT !.fileNo = nextFileNo(newRows)]

nextDraftKeepsSuffix(d, newRows) ==
  IF d.status = OK
  THEN [d EXCEPT !.cutNum = d.cutNum + 1, !.takeNum = 1, !.fileNo = nextFileNo(newRows)]
  ELSE [d EXCEPT !.takeNum = d.takeNum + 1, !.fileNo = nextFileNo(newRows)]

\* the draft addRow leaves once the row is in newRows: after OK the cut
\* advances (from the sentinel -1 to 1), its suffix is cleared and the take
\* restarts; after any other status the take advances
nextDraft(d, newRows) ==
  IF d.status = OK
  THEN [d EXCEPT
          !.cutNum = IF d.cutNum = -1 THEN 1 ELSE d.cutNum + 1,
          !.cutSuffix = <<>>,
          !.takeNum = 1,
          !.fileNo = nextFileNo(newRows)]
  ELSE [d EXCEPT
          !.takeNum = d.takeNum + 1,
          !.fileNo = nextFileNo(newRows)]

addRow ==
  LET sceneStr == combine(draft.sceneNum, draft.sceneSuffix)
      cutStr == combine(draft.cutNum, draft.cutSuffix)
      takeStr == NumStr(draft.takeNum)
      row == [id |-> nextId, createdAt |-> nowISO, updatedAt |-> nowISO,
              fileNo |-> draft.fileNo, sceneNo |-> sceneStr,
              cutNo |-> cutStr, takeNo |-> takeStr, status |-> draft.status,
              mics |-> draft.mics, note |-> draft.note]
      newRows == sort(Append(rows, row))
      next == nextDraft(draft, newRows)
  IN /\ pushHistory
     /\ UNCHANGED <<currentId, reading>>
     /\ before' = Started
     /\ UNCHANGED <<probe, jsonReading, readStart, extracted>>
     /\ undone' = <<>>
     /\ IF incomplete(draft.fileNo, sceneStr, cutStr, takeStr)
        THEN /\ UNCHANGED <<rows, draft, projects, nextId>>
             /\ lastOp' = "addRowRejected"
             /\ run' = RunFrom(rows', draft')
        ELSE /\ rows' = newRows
             /\ draft' = autoFileNo(next, newRows)
             /\ projects' = persist(projects, currentId, newRows)
             /\ nextId' = nextId + 1
             /\ lastOp' = "addRow"
             /\ run' = RunMutated

delRow(id, confirmed) ==
  /\ pushHistory
  /\ UNCHANGED <<currentId, reading, nextId>>
  /\ before' = Started
  /\ UNCHANGED <<probe, jsonReading, readStart, extracted>>
  /\ undone' = <<>>
  /\ IF ~confirmed
     THEN /\ UNCHANGED <<rows, draft, projects>>
          /\ lastOp' = "delRowCancelled"
          /\ run' = RunFrom(rows', draft')
     ELSE /\ rows' = sort(filterOut(rows, id))
          /\ draft' = autoFileNo(draft, rows')
          /\ projects' = persist(projects, currentId, rows')
          /\ lastOp' = "delRow"
          /\ run' = RunMutated

takeNumOfFirst(takeNo) == 1

\* r.takeNo parsed as editRow does: parseInt(r.takeNo || "1", 10) || 1
takeNumOf(takeNo) ==
  LET p == parseInt(IF takeNo = <<>> THEN <<"1">> ELSE takeNo)
  IN IF p.nan \/ p.val = 0 THEN 1 ELSE p.val

editRow(id) ==
  /\ UNCHANGED <<past, future, currentId, reading, nextId>>
  /\ before' = Started
  /\ UNCHANGED <<probe, jsonReading, readStart>>
  /\ undone' = <<>>
  /\ extracted' = IF \E i \in 1..Len(rows) : rows[i].id = id
                  THEN extracted \cup {id} ELSE extracted
  /\ IF ~\E i \in 1..Len(rows) : rows[i].id = id
     THEN /\ UNCHANGED <<rows, draft, projects>>
          /\ lastOp' = "editRowAbsent"
          /\ run' = RunFrom(rows', draft')
     ELSE LET r == rows[CHOOSE i \in 1..Len(rows) :
                          /\ rows[i].id = id
                          /\ \A j \in 1..(i - 1) : rows[j].id # id]
              sc == splitNumAndSuffix(r.sceneNo)
              cu == splitNumAndSuffix(r.cutNo)
              d == [draft EXCEPT
                      !.fileNo = r.fileNo,
                      !.sceneNum = IF sc.num < 1 THEN 1 ELSE sc.num,
                      !.sceneSuffix = sc.suffix,
                      !.cutNum = IF cu.num = -1 THEN -1
                                 ELSE IF cu.num < 1 THEN 1 ELSE cu.num,
                      !.cutSuffix = cu.suffix,
                      !.takeNum = takeNumOf(r.takeNo),
                      !.status = r.status,
                      !.mics = r.mics,
                      !.note = r.note]
          IN /\ rows' = sort(filterOut(rows, id))
             /\ draft' = autoFileNo(d, rows')
             /\ projects' = persist(projects, currentId, rows')
             /\ lastOp' = "editRow"
             /\ run' = RunMutated

countersToOnly(d) == [d EXCEPT !.sceneNum = 1, !.cutNum = -1, !.cutSuffix = <<>>, !.takeNum = 1]

\* (d) => ({ ...d, sceneNum: 1, cutNum: 1, takeNum: 1 })
countersToOne(d) == [d EXCEPT !.sceneNum = 1, !.cutNum = 1, !.takeNum = 1]

resetCounters ==
  /\ pushHistory
  /\ draft' = countersToOne(draft)
  /\ UNCHANGED <<rows, projects, currentId, reading, nextId>>
  /\ lastOp' = "resetCounters"
  /\ before' = Started
  /\ UNCHANGED <<probe, jsonReading, readStart, extracted>>
  /\ undone' = <<>>
  /\ run' = RunMutated

\* Stepper: the string a button of the stepper hands to onChange. value is
\* the token on display, delta the signed step of the button pressed, fast
\* tells the fast buttons from the unit ones (they differ on a cut at the
\* sentinel).
Stepper(variant, value, delta, fast) ==
  LET num == splitNumAndSuffix(value).num
      min == IF variant = "cut" THEN -1 ELSE 1
      clamp(v) == IF v < min THEN min ELSE v
      n == IF variant # "cut" THEN clamp(num + delta)
           ELSE IF delta < 0 THEN (IF num = 1 THEN -1 ELSE clamp(num + delta))
           ELSE IF fast THEN clamp((IF num = -1 THEN 1 ELSE num) + delta)
           ELSE IF num = -1 THEN 1 ELSE clamp(num + delta)
  IN NumStr(n)

setSceneNumOnly(d, n) == [d EXCEPT !.sceneNum = IF n < 1 THEN 1 ELSE n]

\* setters that auto reset
setSceneNum(d, n) ==
  [d EXCEPT !.sceneNum = IF n < 1 THEN 1 ELSE n, !.cutNum = 1, !.cutSuffix = <<>>,
            !.takeNum = 1]

setCutNum(d, n) == [d EXCEPT !.cutNum = IF n < 1 THEN 1 ELSE n, !.takeNum = 1]

\* a handler that sets the draft and nothing else
DraftOnly(d, op) ==
  /\ draft' = d
  /\ UNCHANGED <<rows, past, future, projects, currentId, reading, nextId>>
  /\ lastOp' = op
  /\ before' = Started
  /\ UNCHANGED <<probe, jsonReading, readStart, extracted>>
  /\ undone' = <<>>
  /\ run' = RunFrom(rows', draft')

SceneSteps == {-5, -1, 1, 5}

\* a button of the S# stepper: onChange hands the string to setSceneNum
\* through splitNumAndSuffix
stepScene(delta) ==
  LET v == Stepper("scene", combine(draft.sceneNum, draft.sceneSuffix), delta,
                   delta \in {-5, 5})
  IN DraftOnly(setSceneNum(draft, splitNumAndSuffix(v).num),
               IF delta < 0 THEN "sceneMinus" ELSE "scenePlus")

CutSteps == {-1, 1}

\* a button of the C# stepper, which has no fast buttons
stepCut(delta) ==
  LET v == Stepper("cut", combine(draft.cutNum, draft.cutSuffix), delta, FALSE)
  IN DraftOnly(setCutNum(draft, splitNumAndSuffix(v).num),
               IF delta < 0 THEN "cutMinus" ELSE "cutPlus")

TakeSteps == {-1, 1}

\* a button of the T# stepper: takeNum: Math.max(1, parseInt(v || "1", 10) || 1)
stepTake(delta) ==
  LET v == Stepper("take", NumStr(draft.takeNum), delta, FALSE)
      n == takeNumOf(v)
  IN DraftOnly([draft EXCEPT !.takeNum = IF n < 1 THEN 1 ELSE n],
               IF delta < 0 THEN "takeMinus" ELSE "takePlus")

SuffixInputs == {<<>>, <<"a">>}

\* a button of the suffix row under the S# stepper
setSceneSuffix(s) == DraftOnly([draft EXCEPT !.sceneSuffix = s], "setSceneSuffix")

\* a button of the suffix row under the C# stepper
setCutSuffix(s) == DraftOnly([draft EXCEPT !.cutSuffix = s], "setCutSuffix")

undo ==
  /\ UNCHANGED <<currentId, reading, nextId>>
  /\ IF past = <<>>
     THEN UNCHANGED <<rows, draft, past, future, projects>>
     ELSE LET prev == past[Len(past)]
          IN /\ past' = SubSeq(past, 1, Len(past) - 1)
             /\ future' = Append(future, snap)
             /\ rows' = prev.rows
             /\ draft' = autoFileNo(prev.draft, prev.rows)
             /\ projects' = persist(projects, currentId, prev.rows)
  /\ lastOp' = "undo"
  /\ before' = Started
  /\ UNCHANGED <<probe, jsonReading, readStart, extracted>>
  /\ undone' = IF past = <<>> THEN <<>> ELSE <<[rows |-> rows, draft |-> draft]>>
  /\ run' = RunUndone(rows', draft')

redoPushing ==
  /\ UNCHANGED <<currentId, reading, nextId>>
  /\ IF future = <<>>
     THEN /\ past' = Append(past, snap)
          /\ UNCHANGED <<rows, draft, future, projects>>
     ELSE LET nxt == future[Len(future)]
          IN /\ future' = SubSeq(future, 1, Len(future) - 1)
             /\ past' = Append(past, snap)
             /\ rows' = nxt.rows
             /\ draft' = autoFileNo(nxt.draft, nxt.rows)
             /\ projects' = persist(projects, currentId, nxt.rows)
  /\ lastOp' = "redo"
  /\ before' = Started
  /\ UNCHANGED <<probe, jsonReading, readStart, extracted>>
  /\ undone' = <<>>
  /\ run' = RunFrom(rows', draft')

redo ==
  /\ UNCHANGED <<currentId, reading, nextId>>
  /\ IF future = <<>>
     THEN UNCHANGED <<rows, draft, past, future, projects>>
     ELSE LET nxt == future[Len(future)]
          IN /\ future' = SubSeq(future, 1, Len(future) - 1)
             /\ past' = Append(past, snap)
             /\ rows' = nxt.rows
             /\ draft' = autoFileNo(nxt.draft, nxt.rows)
             /\ projects' = persist(projects, currentId, nxt.rows)
  /\ lastOp' = "redo"
  /\ before' = Started
  /\ UNCHANGED <<probe, jsonReading, readStart, extracted>>
  /\ undone' = <<>>
  /\ run' = RunFrom(rows', draft')

\* the text of the file the operator picks for CSV import: two rows, the
\* later day first
CsvTwoRows ==
  <<"f", "i", "l", "e", "N", "o", ",", "c", "u", "t", "N", "o", ",", "t", "a", "k", "e", "N", "o", ",", "s", "t", "a", "t", "u", "s", "\n">>
  \o <<"\"", "2", "6", "1", "1", "0", "2", "_", "0", "0", "9", "\"", ",", "\"", "U+30AA", "U+30F3", "U+30EA", "U+30FC", "\"", ",", "\"", "2", "\"", ",", "\"", "O", "K", "\"", "\n">>
  \o <<"\"", "2", "6", "1", "1", "0", "1", "_", "0", "0", "5", "\"", ",", "\"", "1", "a", "\"">>

CsvInputs == {CsvTwoRows}

\* importCSV(file): the reader starts reading the file
importCSV(text) ==
  /\ reading' = Append(reading, text)
  /\ readStart' = Append(readStart, rows)
  /\ UNCHANGED <<rows, draft, past, future, projects, currentId, nextId>>
  /\ lastOp' = "importCSV"
  /\ before' = Started
  /\ UNCHANGED <<probe, jsonReading, extracted>>
  /\ undone' = <<>>
  /\ run' = RunFrom(rows', draft')

noValidRowsNever(incoming) == FALSE

\* if (!incoming.length) return alert(...)
noValidRows(incoming) == Len(incoming) = 0

mergeFromStart(p, incoming) == readStart[1] \o incoming

\* setRows((p) => [...p, ...incoming])
merge(p, incoming) == p \o incoming

\* r.onload of importCSV, for the k-th read in flight
csvLoaded(k) ==
  LET t0 == reading[k]
      firstLine == splitLines(t0)[1]
      t == IF includes(firstLine, <<"S", "a", "m", "p", "l", "e", "R", "a", "t", "e", ":">>)
              \/ includes(firstLine, <<"B", "i", "t", "D", "e", "p", "t", "h", ":">>)
           THEN join(Tail(splitLines(t0)), "\n")
           ELSE t0
      incoming == fromCSV(t, nextId)
  IN /\ reading' = SubSeq(reading, 1, k - 1) \o SubSeq(reading, k + 1, Len(reading))
     /\ UNCHANGED <<past, future, currentId>>
     /\ IF noValidRows(incoming)
        THEN /\ UNCHANGED <<rows, draft, projects, nextId>>
             /\ lastOp' = "csvNoRows"
        ELSE /\ rows' = merge(rows, incoming)
             /\ draft' = autoFileNo(draft, rows')
             /\ projects' = persist(projects, currentId, rows')
             /\ nextId' = nextId + Len(incoming)
             /\ lastOp' = "csvLoaded"
     /\ readStart' = SubSeq(readStart, 1, k - 1) \o SubSeq(readStart, k + 1, Len(readStart))
     /\ before' = Started
     /\ UNCHANGED <<probe, jsonReading, extracted>>
     /\ undone' = <<>>
     /\ run' = RunFrom(rows', draft')

\* A handler that mints n ids is taken while ids remain. The file inputs take
\* one file at a time, and the operator picks the next file once the last one
\* has been read.
IdRoom(n) == nextId + n - 1 <= MaxId

\* the repository and the draft: a handler that calls
\* pushHistory is taken while the past stack is shorter than MaxHist
Next ==
  \/ \E s \in StatusInputs : setStatus(s)
  \/ Len(past) < MaxHist /\ IdRoom(1) /\ addRow
  \/ Len(past) < MaxHist /\ \E i \in 1..Len(rows), c \in BOOLEAN : delRow(rows[i].id, c)
  \/ \E id \in 1..MaxId : editRow(id)
  \/ Len(past) < MaxHist /\ resetCounters
  \/ reading = <<>> /\ \E t \in CsvInputs : importCSV(t)
  \/ \E k \in 1..Len(reading) : IdRoom(2) /\ csvLoaded(k)

Spec == Init /\ [][Next]_vars

\* the history stacks within one page load: a handler that calls pushHistory
\* is taken while the past stack is shorter than MaxHist
NextHist ==
  \/ \E s \in FileNoInputs : typeFileNo(s)
  \/ Len(past) < MaxHist /\ IdRoom(1) /\ addRow
  \/ Len(past) < MaxHist /\ \E i \in 1..Len(rows), c \in BOOLEAN : delRow(rows[i].id, c)
  \/ \E id \in 1..MaxId : editRow(id)
  \/ Len(past) < MaxHist /\ resetCounters
  \/ undo
  \/ redo

SpecHist == Init /\ [][NextHist]_vars

AllStatuses == {OK, NG, KEEP}

\* the file number the operator types while committing: the first of the day
TypedFileNos == {todayPrefix \o <<"_", "0", "0", "1">>}

\* committing takes: the file-number field, the status buttons, the T#
\* stepper (up to MaxNum) and the add button
NextCommit ==
  \/ \E s \in TypedFileNos : typeFileNo(s)
  \/ \E s \in AllStatuses : setStatus(s)
  \/ \E d \in TakeSteps : draft.takeNum + d <= MaxNum /\ stepTake(d)
  \/ Len(past) < MaxHist /\ IdRoom(1) /\ addRow

SpecCommit == Init /\ [][NextCommit]_vars

\* a file with nothing but a header
CsvHeaderOnly == <<"f", "i", "l", "e", "N", "o", ",", "t", "a", "k", "e", "N", "o", "\n">>

\* a file of one row whose take number is -3
CsvOddTake ==
  <<"f", "i", "l", "e", "N", "o", ",", "t", "a", "k", "e", "N", "o", "\n">>
  \o <<"\"", "2", "6", "1", "1", "0", "2", "_", "0", "0", "3", "\"", ",", "\"", "-", "3", "\"">>

\* an empty file
CsvEmpty == <<>>

\* a file of nothing but a settings line
CsvSettingsOnly == <<"B", "i", "t", "D", "e", "p", "t", "h", ":", "2", "4", "\n", " ", "\n">>

\* a file of two lines that is no table of takes: its first line names none
\* of the columns
CsvNoColumns == <<"h", "e", "l", "l", "o", "\n", "w", "o", "r", "l", "d", ",", "1">>

CsvFiles == {CsvTwoRows, CsvHeaderOnly, CsvOddTake, CsvEmpty, CsvSettingsOnly, CsvNoColumns}

\* re-editing stored rows: CSV import, edit-extraction, the C# and T#
\* steppers (up to MaxNum) and the suffix row of the cut
NextEdit ==
  \/ reading = <<>> /\ \E t \in CsvFiles : importCSV(t)
  \/ \E k \in 1..Len(reading) : IdRoom(2) /\ csvLoaded(k)
  \/ \E id \in 1..MaxId : editRow(id)
  \/ \E d \in CutSteps : draft.cutNum + d <= MaxNum /\ stepCut(d)
  \/ \E d \in TakeSteps : draft.takeNum + d <= MaxNum /\ stepTake(d)
  \/ \E x \in SuffixInputs : setCutSuffix(x)

SpecEdit == Init /\ [][NextEdit]_vars

\* a file of one row that has a take number and no file number
CsvNoFileNo ==
  <<"t", "a", "k", "e", "N", "o", ",", "c", "u", "t", "N", "o", "\n">>
  \o <<"\"", "2", "\"", ",", "\"", "3", "b", "\"">>

\* edit-extraction and what can bring a row back: commits, CSV import, undo
\* and redo
NextExtract ==
  \/ Len(past) < MaxHist /\ IdRoom(1) /\ addRow
  \/ \E id \in 1..MaxId : editRow(id)
  \/ reading = <<>> /\ importCSV(CsvNoFileNo)
  \/ \E k \in 1..Len(reading) : IdRoom(1) /\ csvLoaded(k)
  \/ undo
  \/ redo

SpecExtract == Init /\ [][NextExtract]_vars

\* the auto-fill of the file number: the operator clears the field, rows
\* change by commits, deletions and CSV imports, undo brings a future stack
NextFill ==
  \/ \E s \in FileNoInputs : typeFileNo(s)
  \/ Len(past) < MaxHist /\ IdRoom(1) /\ addRow
  \/ Len(past) < MaxHist /\ \E i \in 1..Len(rows), c \in BOOLEAN : delRow(rows[i].id, c)
  \/ reading = <<>> /\ \E t \in {CsvTwoRows, CsvHeaderOnly} : importCSV(t)
  \/ \E k \in 1..Len(reading) : IdRoom(2) /\ csvLoaded(k)
  \/ undo

SpecFill == Init /\ [][NextFill]_vars

(***************************************************************************)
(* Projects                                                                *)
(***************************************************************************)
\* projects.find((x) => x.id === id), as the set of positions that hold it
findProject(ps, id) == {i \in 1..Len(ps) : ps[i].id = id}

\* what a project handler leaves once the effects have run: the project
\* list ps, the current project cur and the row list rs it has set, the rows
\* persisted into the current project and the file number filled if empty
ProjectSet(ps, cur, rs, minted, op) ==
  /\ projects' = persist(ps, cur, rs)
  /\ currentId' = cur
  /\ rows' = rs
  /\ draft' = autoFileNo(draft, rs)
  /\ nextId' = nextId + minted
  /\ UNCHANGED <<past, future, reading, jsonReading>>
  /\ lastOp' = op
  /\ before' = Started
  /\ UNCHANGED <<probe, readStart, extracted>>
  /\ undone' = <<>>
  /\ run' = RunFrom(rows', draft')

\* a project handler that returns before it sets anything
ProjectKept(op) ==
  /\ UNCHANGED <<rows, draft, past, future, projects, currentId, reading, nextId,
                 jsonReading>>
  /\ lastOp' = op
  /\ before' = Started
  /\ UNCHANGED <<probe, readStart, extracted>>
  /\ undone' = <<>>
  /\ run' = RunFrom(rows', draft')

\* createProject(), the prompt left at its default or cancelled
createProject ==
  LET np == [id |-> nextId, name |-> NewProjectName, rows |-> <<>>]
  IN ProjectSet(<<np>> \o projects, nextId, <<>>, 1, "createProject")

\* openProject(id), from a line of the project picker
openProject(id) ==
  LET I == findProject(projects, id)
  IN IF I = {} THEN ProjectKept("openProjectNone")
     ELSE LET pr == projects[CHOOSE i \in I : \A j \in I : i <= j]
          IN ProjectSet(projects, id, pr.rows, 0, "openProject")

duplicateProject ==
  LET I == findProject(projects, currentId)
  IN IF currentId = 0 \/ I = {} THEN ProjectKept("duplicateProjectNone")
     ELSE LET pr == projects[CHOOSE i \in I : \A j \in I : i <= j]
              np == [id |-> nextId, name |-> pr.name \o CopySuffix, rows |-> pr.rows]
          IN ProjectSet(<<np>> \o projects, nextId, np.rows, 1, "duplicateProject")

\* deleteProject(), confirmed telling what the operator answers
deleteProject(confirmed) ==
  LET I == findProject(projects, currentId)
      rest == SelectSeq(projects, LAMBDA x : x.id # currentId)
      np == [id |-> nextId, name |-> Untitled, rows |-> <<>>]
  IN IF currentId = 0 \/ I = {} \/ ~confirmed THEN ProjectKept("deleteProjectNone")
     ELSE IF rest # <<>>
          THEN ProjectSet(rest, rest[1].id, rest[1].rows, 0, "deleteProject")
          ELSE ProjectSet(<<np>>, nextId, <<>>, 1, "deleteProject")


\* a parsed element of obj.rows taken as a TakeRow (obj.rows as TakeRow[]):
\* its members under the names of the fields. The payloads of JsonFiles give
\* every field to every row.
asTakeRow(o) ==
  [id |-> member(o, Key.id).v,
   createdAt |-> member(o, Key.createdAt).v,
   updatedAt |-> member(o, Key.updatedAt).v,
   fileNo |-> member(o, Key.fileNo).v,
   sceneNo |-> member(o, Key.sceneNo).v,
   cutNo |-> member(o, Key.cutNo).v,
   takeNo |-> member(o, Key.takeNo).v,
   status |-> member(o, Key.status).v,
   mics |-> LET m == member(o, Key.mics).v IN [i \in 1..Len(m) |-> m[i].v],
   note |-> member(o, Key.note).v]

\* importProjectJSON(file): the reader starts reading the file; its onload
\* keeps the project list of the render the handler ran in
importProjectJSON(text) ==
  /\ jsonReading' = Append(jsonReading, [text |-> text, projects |-> projects])
  /\ UNCHANGED <<rows, draft, past, future, projects, currentId, reading, nextId>>
  /\ lastOp' = "importProjectJSON"
  /\ before' = Started
  /\ UNCHANGED <<probe, readStart, extracted>>
  /\ undone' = <<>>
  /\ run' = RunFrom(rows', draft')

isObjectAlways(v) == TRUE

\* the test that lets a parsed value through: !(!obj || typeof obj !==
\* "object"); null, false, 0 and "" are falsy, arrays are objects
isObject(v) == v.t \in {"object", "array"}

\* r.onload of importProjectJSON, for the k-th read in flight
jsonLoaded(k) ==
  LET f == jsonReading[k]
      r == JSONparse(f.text)
      obj == r.val
      nm == member(obj, Key.name)
      rw == member(obj, Key.rows)
      rs == IF rw.t = "array" THEN [i \in 1..Len(rw.v) |-> asTakeRow(rw.v[i])] ELSE <<>>
      np == [id |-> nextId,
             name |-> IF nm.t = "string" /\ nm.v # <<>> THEN nm.v ELSE ImportedName,
             rows |-> rs]
  IN /\ jsonReading' = SubSeq(jsonReading, 1, k - 1) \o SubSeq(jsonReading, k + 1, Len(jsonReading))
     /\ UNCHANGED <<past, future, reading>>
     /\ IF ~r.ok \/ ~isObject(obj)
        THEN /\ UNCHANGED <<rows, draft, projects, currentId, nextId>>
             /\ lastOp' = "jsonRejected"
        ELSE /\ projects' = persist(<<np>> \o f.projects, nextId, rs)
             /\ currentId' = nextId
             /\ rows' = rs
             /\ draft' = autoFileNo(draft, rs)
             /\ nextId' = nextId + 1
             /\ lastOp' = "jsonLoaded"
     /\ before' = Started
     /\ UNCHANGED <<probe, readStart, extracted>>
     /\ undone' = <<>>
     /\ run' = RunFrom(rows', draft')

\* the text of a string, a member and a row in a JSON file
Quoted(cs) == <<"\"">> \o cs \o <<"\"">>
StrMember(key, cs) == Quoted(key) \o <<":">> \o Quoted(cs)
JsonRow(id, fileNo, status, micsText) ==
  <<"{">> \o Quoted(Key.id) \o <<":">> \o NumStr(id)
  \o <<",">> \o StrMember(Key.createdAt, nowISO)
  \o <<",">> \o StrMember(Key.updatedAt, nowISO)
  \o <<",">> \o StrMember(Key.fileNo, fileNo)
  \o <<",">> \o StrMember(Key.sceneNo, <<"1">>)
  \o <<",">> \o StrMember(Key.cutNo, <<"2", "a">>)
  \o <<",">> \o StrMember(Key.takeNo, <<"1">>)
  \o <<",">> \o StrMember(Key.status, status)
  \o <<",">> \o Quoted(Key.mics) \o <<":">> \o micsText
  \o <<",">> \o StrMember(Key.note, <<>>) \o <<"}">>

\* files the operator picks for the JSON import: text that is not JSON, a
\* JSON string, null, and a project of one row whose status is "HOLD" and
\* which has one mic
JsonBare == <<"n", "o", "t", " ", "a", "n", " ", "o", "b", "j", "e", "c", "t">>
JsonString == Quoted(JsonBare)
JsonNull == <<"n", "u", "l", "l">>
JsonProject ==
  <<"{">> \o StrMember(Key.name, <<"P">>) \o <<",", " ">> \o Quoted(Key.rows) \o <<":", "[">>
  \o JsonRow(1, todayPrefix \o <<"_", "0", "0", "7">>, <<"H", "O", "L", "D">>,
             <<"[">> \o Quoted(<<"L">>) \o <<"]">>)
  \o <<"]", "}", "\n">>
JsonFiles == {JsonBare, JsonString, JsonNull, JsonProject}

\* what the startup effect finds in the store: nothing, or a project list
\* with the saved current id, which the list holds or no longer holds. Ids up
\* to usedIds are in use.
StoredProject == [id |-> 1, name |-> Untitled,
                  rows |-> <<RowWith(2, todayPrefix \o <<"_", "0", "0", "1">>)>>]
Stores ==
  { [ps |-> <<>>, saved |-> 0, usedIds |-> 0],
    [ps |-> <<StoredProject>>, saved |-> 1, usedIds |-> 2],
    [ps |-> <<StoredProject>>, saved |-> 3, usedIds |-> 3] }

\* The state once the component has mounted on the store st and the effects
\* have run: the startup effect makes the untitled project on an empty store,
\* opens the saved project if the list holds it, and otherwise leaves
\* currentId undefined (0); the auto-fill has filled the file number in the
\* first render, when rows was still empty.
MountedOn(st) ==
  LET I == findProject(st.ps, st.saved)
      found == st.saved # 0 /\ I # {}
      np == [id |-> st.usedIds + 1, name |-> Untitled, rows |-> <<>>]
      cur == IF st.ps = <<>> THEN np.id ELSE IF found THEN st.saved ELSE 0
      rs == IF st.ps # <<>> /\ found THEN st.ps[CHOOSE i \in I : TRUE].rows ELSE <<>>
  IN /\ rows = rs
     /\ draft = autoFileNo(InitialDraft, <<>>)
     /\ past = <<>>
     /\ future = <<>>
     /\ projects = persist(IF st.ps = <<>> THEN <<np>> ELSE st.ps, cur, rs)
     /\ currentId = cur
     /\ reading = <<>>
     /\ nextId = IF st.ps = <<>> THEN np.id + 1 ELSE st.usedIds + 1
     /\ lastOp = "init"
     /\ before = [rows |-> <<>>, draft |-> InitialDraft, past |-> <<>>, future |-> <<>>,
                  undone |-> <<>>, reading |-> <<>>, readStart |-> <<>>,
                  projects |-> <<>>, currentId |-> 0, jsonReading |-> <<>>]
     /\ run = RunFrom(rows, draft)
     /\ undone = <<>>
     /\ jsonReading = <<>>
     /\ readStart = <<>>
     /\ extracted = {}
     /\ probe = NoProbe

InitProj == \E st \in Stores : MountedOn(st)

\* the projects: commits of rows and the project handlers, from every store
\* of Stores
NextProj ==
  \/ Len(past) < MaxHist /\ IdRoom(1) /\ addRow
  \/ IdRoom(1) /\ createProject
  \/ \E i \in 1..Len(projects) : openProject(projects[i].id)
  \/ IdRoom(1) /\ duplicateProject
  \/ IdRoom(1) /\ deleteProject(TRUE)
  \/ jsonReading = <<>> /\ \E t \in JsonFiles : importProjectJSON(t)
  \/ \E k \in 1..Len(jsonReading) : IdRoom(1) /\ jsonLoaded(k)

SpecProj == InitProj /\ [][NextProj]_vars

(***************************************************************************)
(* The pure functions, called on their own                                 *)
(***************************************************************************)
\* the handlers leave everything but probe alone during a call
Idle ==
  UNCHANGED <<rows, draft, past, future, projects, currentId, reading, nextId,
              lastOp, before, run, undone, jsonReading, readStart, extracted>>

\* file numbers of the rows handed to nextFileNo: three of the running day,
\* one of the day before and one of the day after
FileNoPool ==
  { <<"2", "6", "1", "1", "0", "2", "_", "0", "0", "1">>,
    <<"2", "6", "1", "1", "0", "2", "_", "0", "0", "2">>,
    <<"2", "6", "1", "1", "0", "2", "_", "0", "0", "9">>,
    <<"2", "6", "1", "1", "0", "1", "_", "0", "0", "5">>,
    <<"2", "6", "1", "1", "0", "3", "_", "0", "1", "2">> }

\* the row lists handed to nextFileNo, of up to MaxProbeRows rows
RowLists ==
  UNION { [1..n -> FileNoPool] : n \in 0..MaxProbeRows }

ProbeRows(fs) == [i \in 1..Len(fs) |-> RowWith(i, fs[i])]

\* nextFileNo(rows), called on its own
callNextFileNo ==
  /\ probe.fn = "nextFileNo"
  /\ probe.res = <<>>
  /\ probe' = [probe EXCEPT !.res = <<nextFileNo(probe.arg)>>]
  /\ Idle

\* file numbers as an import or the file-number field can leave them in the
\* rows, all of the running day: the counters 1 and 999, no underscore, a
\* counter with letters, one without a digit, a third segment, and the
\* counter 2^53
ImportedFileNos ==
  { todayPrefix \o <<"_", "0", "0", "1">>,
    todayPrefix \o <<"_", "9", "9", "9">>,
    todayPrefix,
    todayPrefix \o <<"_", "1", "a", "0">>,
    todayPrefix \o <<"_", "a", "b", "c">>,
    todayPrefix \o <<"_", "0", "0", "1", "_", "0", "0", "7">>,
    todayPrefix \o <<"_">> \o TwoTo53 }

\* nextFileNo(rows), called on rows with such file numbers
callNextFileNoImported ==
  /\ probe.fn = "nextFileNo(imported)"
  /\ probe.res = <<>>
  /\ probe' = [probe EXCEPT !.res = <<nextFileNo(probe.arg)>>]
  /\ Idle

\* characters of the tokens handed to splitNumAndSuffix
TokenChars == {"0", "1", "2", "a", "g", "h", "A", "-"}

\* the tokens handed to splitNumAndSuffix: the sentinel and every string of
\* up to MaxTokenLen of the characters
Tokens ==
  {OnlyToken} \cup UNION { [1..n -> TokenChars] : n \in 0..MaxTokenLen }

\* splitNumAndSuffix(value), called on its own
callSplit ==
  /\ probe.fn = "splitNumAndSuffix"
  /\ probe.res = <<>>
  /\ probe' = [probe EXCEPT !.res = <<splitNumAndSuffix(probe.arg)>>]
  /\ Idle

\* combine(num, suffix), called on what splitNumAndSuffix returned
callCombine ==
  /\ probe.fn = "splitNumAndSuffix"
  /\ probe.res # <<>>
  /\ probe' = [fn |-> "combine", arg |-> probe.arg,
               res |-> <<combine(probe.res[1].num, probe.res[1].suffix)>>]
  /\ Idle

\* notes and microphone labels of the rows handed to toCSV: with a comma,
\* with double quotes, with a line break
NotePool ==
  { <<>>, <<"a", ",", "b">>, <<"\"">>, <<"q", "\"", "\"", ",">>, <<"x", "\n", "y">> }

MicsPool == { EmptyMics, << <<"L", ",", "R">> >> }

\* rows to encode: with and without a createdAt, mics of 8 and of fewer slots
CsvRows ==
  { [RowWith(0, todayPrefix \o <<"_", "0", "0", "1">>)
       EXCEPT !.createdAt = c, !.status = OK, !.note = n, !.mics = m] :
      c \in {nowISO, <<>>}, n \in NotePool, m \in MicsPool }

\* toCSV(rows), called on its own
callToCSV ==
  /\ probe.fn = "toCSV"
  /\ probe.res = <<>>
  /\ probe' = [probe EXCEPT !.res = <<toCSV(probe.arg)>>]
  /\ Idle

\* fromCSV(csv), called on what toCSV returned; arg keeps the rows that were
\* encoded
callFromCSV ==
  /\ probe.fn = "toCSV"
  /\ probe.res # <<>>
  /\ probe' = [fn |-> "fromCSV", arg |-> probe.arg, res |-> <<fromCSV(probe.res[1], 1)>>]
  /\ Idle

\* the step of the fast buttons: fast={5}
FastStep == 5

\* values on display in a stepper: the sentinel and the numbers up to
\* MaxStepperNum
StepperValues == {OnlyToken} \cup {NatStr(n) : n \in 0..MaxStepperNum}

\* the unit button, pressed on the value the press before handed to
\* onChange
pressUnit ==
  /\ probe.fn = "Stepper"
  /\ Len(probe.res) < FastStep
  /\ LET shown == IF probe.res = <<>> THEN probe.arg.value
                  ELSE probe.res[Len(probe.res)]
     IN probe' = [probe EXCEPT !.res =
                    Append(@, Stepper(probe.arg.variant, shown, probe.arg.dir, FALSE))]
  /\ Idle

\* the fast button of the same side, pressed on the value first shown; arg
\* keeps what the unit presses came to
pressFast ==
  /\ probe.fn = "Stepper"
  /\ Len(probe.res) = FastStep
  /\ probe' = [fn |-> "StepperFast",
               arg |-> [variant |-> probe.arg.variant, value |-> probe.arg.value,
                        dir |-> probe.arg.dir, units |-> probe.res[FastStep]],
               res |-> <<Stepper(probe.arg.variant, probe.arg.value,
                                 FastStep * probe.arg.dir, TRUE)>>]
  /\ Idle

\* the calls made on their own, one per initial state: nextFileNo on row
\* lists of both pools, splitNumAndSuffix on the tokens, toCSV on lists of up
\* to MaxProbeRows rows, and a stepper of some role showing some value with
\* the side of the buttons pressed (-1 the minus side, 1 the plus side),
\* whose res collects the strings handed to onChange
ProbeInputs ==
  { [fn |-> "nextFileNo", arg |-> ProbeRows(fs), res |-> <<>>] :
      fs \in RowLists }
  \cup
  { [fn |-> "nextFileNo(imported)", arg |-> ProbeRows(fs), res |-> <<>>] :
      fs \in UNION { [1..n -> ImportedFileNos] : n \in 1..MaxProbeRows } }
  \cup
  { [fn |-> "splitNumAndSuffix", arg |-> t, res |-> <<>>] :
      t \in Tokens }
  \cup
  { [fn |-> "toCSV", arg |-> rs, res |-> <<>>] :
      rs \in UNION { [1..n -> CsvRows] : n \in 0..MaxProbeRows } }
  \cup
  { [fn |-> "Stepper", arg |-> [variant |-> r, value |-> v, dir |-> d], res |-> <<>>] :
      r \in {"scene", "cut", "take"}, v \in StepperValues, d \in {-1, 1} }

InitPure == Mounted /\ probe \in ProbeInputs

NextPure ==
  \/ callNextFileNo
  \/ callNextFileNoImported
  \/ callSplit
  \/ callCombine
  \/ callToCSV
  \/ callFromCSV
  \/ pressUnit
  \/ pressFast

SpecPure == InitPure /\ [][NextPure]_vars

\* commits, project switches and the history buttons: the past and future
\* stacks are refs of the page, which no project handler clears
NextSwitch ==
  \/ Len(past) < MaxHist /\ IdRoom(1) /\ addRow
  \/ IdRoom(1) /\ createProject
  \/ \E i \in 1..Len(projects) : openProject(projects[i].id)
  \/ undo
  \/ redo

SpecSwitch == Init /\ [][NextSwitch]_vars

\* the steppers and suffix rows of the draft, around up to MaxDraftRows
\* commits
NextDraft ==
  \/ Len(rows) < MaxDraftRows /\ addRow
  \/ \E d \in SceneSteps : draft.sceneNum + d <= MaxNum /\ stepScene(d)
  \/ \E d \in CutSteps : draft.cutNum + d <= MaxNum /\ stepCut(d)
  \/ \E d \in TakeSteps : draft.takeNum + d <= MaxNum /\ stepTake(d)
  \/ \E x \in SuffixInputs : setSceneSuffix(x)
  \/ \E x \in SuffixInputs : setCutSuffix(x)

SpecDraft == Init /\ [][NextDraft]_vars

\* a file of one row whose cut is the sentinel
CsvOnlyCut ==
  <<"f", "i", "l", "e", "N", "o", ",", "s", "c", "e", "n", "e", "N", "o", ",", "c", "u", "t", "N", "o", ",", "t", "a", "k", "e", "N", "o", ",", "s", "t", "a", "t", "u", "s", "\n">>
  \o <<"\"", "2", "6", "1", "1", "0", "2", "_", "0", "0", "4", "\"", ",", "\"", "2", "b", "\"", ",", "\"", "U+30AA", "U+30F3", "U+30EA", "U+30FC", "\"", ",", "\"", "2", "\"", ",", "\"", "N", "G", "\"">>

\* sessions of commits only: the status buttons and the add button, from the
\* draft of the startup or from the draft an edit-extraction of an imported
\* row has left on the empty list
NextRun ==
  \/ lastOp = "init" /\ importCSV(CsvOnlyCut)
  \/ \E k \in 1..Len(reading) : IdRoom(1) /\ csvLoaded(k)
  \/ lastOp = "csvLoaded" /\ \E i \in 1..Len(rows) : editRow(rows[i].id)
  \/ lastOp \notin {"importCSV", "csvLoaded"} /\ \E s \in AllStatuses : setStatus(s)
  \/ lastOp \notin {"importCSV", "csvLoaded"} /\ IdRoom(1) /\ addRow

SpecRun == Init /\ [][NextRun]_vars

\* commits and edit-extractions: the OK button, the suffix row of the cut,
\* the add button and the edit button of a row, after an optional import of
\* a row at the sentinel
NextReAdd ==
  \/ lastOp = "init" /\ importCSV(CsvOnlyCut)
  \/ \E k \in 1..Len(reading) : IdRoom(1) /\ csvLoaded(k)
  \/ \E s \in StatusInputs : setStatus(s)
  \/ \E x \in SuffixInputs : setCutSuffix(x)
  \/ IdRoom(1) /\ addRow
  \/ \E i \in 1..Len(rows) : editRow(rows[i].id)

SpecReAdd == Init /\ [][NextReAdd]_vars

(***************************************************************************)
(* Properties                                                              *)
(***************************************************************************)
IsSorted(rs) == \A i \in 1..(Len(rs) - 1) : compareByFileNo(rs[i], rs[i + 1]) <= 0

Mutations == {"addRow", "delRow", "editRow", "resetCounters"}

\* C1: after addRow or a confirmed delRow, whatever the row list it started
\* from, the rows are in ascending order of fileNo under compareByFileNo
\* (equal file numbers may be adjacent).
C1_SortedAfterAddDel == lastOp \in {"addRow", "delRow"} => IsSorted(rows)

\* addRow or delRow has acted on a row list that was out of order
C1_Witness == lastOp \in {"addRow", "delRow"} /\ ~IsSorted(before.rows) /\ Len(rows) >= 2

\* C2: in every reachable state the rows of the current project are in
\* ascending order of fileNo.
C2_AlwaysSorted == IsSorted(rows)

\* C3: n mutations (addRow, confirmed delRow, editRow, resetCounters)
\* followed by n presses of undo leave rows and draft exactly as they were
\* before the first mutation.
C3_UndoAllRestores ==
  (run.n > 0 /\ run.u = run.n) => (rows = run.base.rows /\ draft = run.base.draft)

\* C4 as stated: an undo pressed in state X with a non-empty past, followed
\* at once by redo, leaves rows and draft exactly as in X.
C4_RedoRestores ==
  (lastOp = "redo" /\ before.undone # <<>>)
    => (rows = before.undone[1].rows /\ draft = before.undone[1].draft)

\* C4 amended: an undo pressed in state X with a non-empty past, followed at
\* once by redo, leaves rows as in X, and the draft as in X except that an
\* empty file number of X has been filled with nextFileNo of the rows.
C4_RedoRestoresFilled ==
  (lastOp = "redo" /\ before.undone # <<>>)
    => LET X == before.undone[1]
       IN /\ rows = X.rows
          /\ draft = IF X.draft.fileNo = <<>>
                     THEN [X.draft EXCEPT !.fileNo = nextFileNo(X.rows)]
                     ELSE X.draft

\* redo has restored a state that undo had left, one with rows and a draft
\* other than the snapshot undo went back to
C4_Witness ==
  /\ lastOp = "redo"
  /\ before.undone # <<>>
  /\ rows # <<>>
  /\ [rows |-> rows, draft |-> draft] # [rows |-> before.rows, draft |-> before.draft]

\* C5: a mutation (add, delete, edit-extraction, counter reset) made after an
\* undo leaves the future stack empty, so that redo has nothing to restore.
C5_MutationClearsFuture == lastOp \in Mutations => future = <<>>

\* C6: each of add, delete, edit-extraction and counter reset has pushed the
\* rows and the draft it started from onto past.
C6_MutationPushesSnapshot ==
  lastOp \in Mutations =>
    /\ past # <<>>
    /\ past[Len(past)] = [rows |-> before.rows, draft |-> before.draft]

\* C7: undo on an empty past stack and redo on an empty future stack leave
\* rows, draft, past and future unchanged.
C7_EmptyStackNoOp ==
  (\/ lastOp = "undo" /\ before.past = <<>>
   \/ lastOp = "redo" /\ before.future = <<>>)
    => /\ rows = before.rows
       /\ draft = before.draft
       /\ past = before.past
       /\ future = before.future

\* redo was pressed on an empty future stack while the past stack held a
\* snapshot and the list held a row
C7_Witness == lastOp = "redo" /\ before.future = <<>> /\ before.past # <<>> /\ rows # <<>>

\* C8: addRow on a draft whose file number (or combined scene, cut or take
\* token) is empty is rejected: no row is inserted and the draft is not
\* advanced.
C8_RejectedKeepsRowsDraft ==
  (/\ lastOp \in {"addRow", "addRowRejected"}
   /\ \/ before.draft.fileNo = <<>>
      \/ combine(before.draft.sceneNum, before.draft.sceneSuffix) = <<>>
      \/ combine(before.draft.cutNum, before.draft.cutSuffix) = <<>>)
    => /\ lastOp = "addRowRejected"
       /\ rows = before.rows
       /\ draft = before.draft

\* addRow was pressed on a draft with an empty file number while the list
\* held a row
C8_Witness == lastOp = "addRowRejected" /\ before.draft.fileNo = <<>> /\ rows # <<>>

\* C9: a rejected addRow leaves the past and future stacks as they were.
C9_RejectedKeepsHistory ==
  lastOp = "addRowRejected" => (past = before.past /\ future = before.future)

\* C10: after a successful addRow with status OK the draft has cut number 1
\* if the committed cut was the sentinel -1 and the committed cut + 1
\* otherwise, an empty cut suffix, take number 1, and the scene number and
\* scene suffix it had.
C10_AdvanceAfterOK ==
  (lastOp = "addRow" /\ before.draft.status = OK)
    => /\ draft.cutNum = IF before.draft.cutNum = -1 THEN 1 ELSE before.draft.cutNum + 1
       /\ draft.cutSuffix = <<>>
       /\ draft.takeNum = 1
       /\ draft.sceneNum = before.draft.sceneNum
       /\ draft.sceneSuffix = before.draft.sceneSuffix

\* a row with the sentinel cut was committed with status OK
C10_Witness ==
  /\ lastOp = "addRow"
  /\ before.draft.status = OK
  /\ before.draft.cutNum = -1
  /\ draft.cutNum = 1

\* C11: after a successful addRow with status NG or KEEP the draft has the
\* committed take number + 1, and the scene number, scene suffix, cut number
\* and cut suffix it had.
C11_AdvanceAfterNGKeep ==
  (lastOp = "addRow" /\ before.draft.status \in {NG, KEEP})
    => /\ draft.takeNum = before.draft.takeNum + 1
       /\ draft.sceneNum = before.draft.sceneNum
       /\ draft.sceneSuffix = before.draft.sceneSuffix
       /\ draft.cutNum = before.draft.cutNum
       /\ draft.cutSuffix = before.draft.cutSuffix

\* a row was committed with status NG at take 3
C11_Witness ==
  /\ lastOp = "addRow"
  /\ before.draft.status = NG
  /\ before.draft.takeNum = 3
  /\ draft.takeNum = 4

\* C12: after every successful addRow, whatever the status, the draft's file
\* number is nextFileNo of the row list that holds the new row.
C12_FileNoFromNewRows == lastOp = "addRow" => draft.fileNo = nextFileNo(rows)

\* a commit after which the list with the new row and the list without it
\* give different next file numbers, made with a file number other than the
\* one the draft has now
C12_Witness ==
  /\ lastOp = "addRow"
  /\ nextFileNo(rows) # nextFileNo(before.rows)
  /\ draft.fileNo # before.draft.fileNo
  /\ Len(rows) >= 2

\* the counter of a file number of FileNoPool and the day it belongs to,
\* read off the file numbers by hand
PoolDay(f) == SubSeq(f, 1, 6)

PoolCounter(f) ==
  CASE SubSeq(f, 8, 10) = <<"0", "0", "1">> -> 1
    [] SubSeq(f, 8, 10) = <<"0", "0", "2">> -> 2
    [] SubSeq(f, 8, 10) = <<"0", "0", "5">> -> 5
    [] SubSeq(f, 8, 10) = <<"0", "0", "9">> -> 9
    [] SubSeq(f, 8, 10) = <<"0", "1", "2">> -> 12

ThreeDigits(n) ==
  CASE n = 1 -> <<"0", "0", "1">>
    [] n = 2 -> <<"0", "0", "2">>
    [] n = 3 -> <<"0", "0", "3">>
    [] n = 10 -> <<"0", "1", "0">>

Today == <<"2", "6", "1", "1", "0", "2">>

\* C13: nextFileNo(rows) is "<today>_001" when no row's file number starts
\* with today's prefix, and otherwise "<today>_<max+1>", max being the
\* largest counter among the rows of today; rows of other days have no
\* influence, and one row "<today>_001" gives "<today>_002".
C13_NextFileNo ==
  (probe.fn = "nextFileNo" /\ probe.res # <<>>)
    => LET rs == probe.arg
           cs == {PoolCounter(rs[i].fileNo) : i \in {j \in 1..Len(rs) : PoolDay(rs[j].fileNo) = Today}}
           max == CHOOSE m \in cs : \A c \in cs : c <= m
       IN /\ probe.res[1] = Today \o <<"_">> \o ThreeDigits(IF cs = {} THEN 1 ELSE max + 1)
          /\ (Len(rs) = 1 /\ rs[1].fileNo = Today \o <<"_", "0", "0", "1">>)
               => probe.res[1] = Today \o <<"_", "0", "0", "2">>

\* nextFileNo was called on a row of today with counter 9 and a row of the
\* day after with counter 12, and returned the counter 10
C13_Witness ==
  /\ probe.fn = "nextFileNo"
  /\ probe.res = << Today \o <<"_", "0", "1", "0">> >>
  /\ Len(probe.arg) = 2
  /\ \E i \in 1..2 : PoolDay(probe.arg[i].fileNo) # Today /\ PoolCounter(probe.arg[i].fileNo) = 12

\* the tokens the claims call valid: digits followed by at most one of the
\* letters a..g, or the sentinel
LowerSuffixes == {"a", "b", "c", "d", "e", "f", "g"}

AllDigits(t) == \A i \in 1..Len(t) : t[i] \in {"0", "1", "2", "3", "4", "5", "6", "7", "8", "9"}

ValidToken(t) ==
  \/ t = <<"U+30AA", "U+30F3", "U+30EA", "U+30FC">>
  \/ t # <<>> /\ AllDigits(t)
  \/ Len(t) >= 2 /\ AllDigits(SubSeq(t, 1, Len(t) - 1)) /\ t[Len(t)] \in LowerSuffixes

\* C17: for every valid token t, combine(splitNumAndSuffix(t)) = t; every
\* other input comes back as the one canonical default, the token "1".
C17_RoundTrip ==
  probe.fn = "combine"
    => IF ValidToken(probe.arg) THEN probe.res[1] = probe.arg ELSE probe.res[1] = <<"1">>

\* C18: splitNumAndSuffix of an input that is neither the sentinel nor digits
\* with an optional a..g suffix returns magnitude 0 and the empty suffix, and
\* the suffix it returns is always one of "", a, b, c, d, e, f, g.
C18_FallbackAndSuffix ==
  (probe.fn = "splitNumAndSuffix" /\ probe.res # <<>>)
    => /\ ~ValidToken(probe.arg) => probe.res[1] = [num |-> 0, suffix |-> <<>>]
       /\ probe.res[1].suffix \in {<<>>} \cup {<<c>> : c \in LowerSuffixes}

\* C14: in every reachable state no two rows of the same day (the same
\* first six characters of fileNo) carry the same file number.
C14_UniquePerDay ==
  \A i, j \in 1..Len(rows) :
    (i < j /\ Len(rows[i].fileNo) >= 6 /\ SubSeq(rows[i].fileNo, 1, 6) = SubSeq(rows[j].fileNo, 1, 6))
      => rows[i].fileNo # rows[j].fileNo

\* C15: the unit decrement of the C# stepper on a draft whose cut number is 1
\* leaves the cut at the sentinel -1, and its unit increment on a draft whose
\* cut is the sentinel leaves the cut at 1 with an empty suffix.
C15_CutBoundary ==
  /\ (lastOp = "cutMinus" /\ before.draft.cutNum = 1) => draft.cutNum = -1
  /\ (lastOp = "cutPlus" /\ before.draft.cutNum = -1)
       => (draft.cutNum = 1 /\ draft.cutSuffix = <<>>)

\* C16: in every reachable state the draft's scene number and take number
\* are at least 1 and its cut number is the sentinel -1 or at least 1.
C16_DraftRanges ==
  /\ draft.sceneNum >= 1
  /\ draft.takeNum >= 1
  /\ draft.cutNum = -1 \/ draft.cutNum >= 1

\* the fields of a decoded row d that C19 compares with those of the encoded
\* row o, o's fields first passed through f
SameFields(d, o, f(_)) ==
  /\ d.fileNo = f(o.fileNo)
  /\ d.sceneNo = f(o.sceneNo)
  /\ d.cutNo = f(o.cutNo)
  /\ d.takeNo = f(o.takeNo)
  /\ d.status = f(o.status)
  /\ d.note = f(o.note)
  /\ Len(d.mics) = 8
  /\ \A k \in 1..8 : d.mics[k] = IF k <= Len(o.mics) THEN f(o.mics[k]) ELSE <<>>

Same(x) == x

Spaced(x) == [i \in 1..Len(x) |-> IF x[i] = "\n" THEN " " ELSE x[i]]

\* C19 as stated: fromCSV(toCSV(rows)) has as many rows as rows, in the same
\* order, each with createdAt, fileNo, sceneNo, cutNo, takeNo, status, the
\* mic labels (filled to 8) and note equal to the original's, also when a
\* field holds commas, double quotes or line breaks.
C19_CsvRoundTrip ==
  probe.fn = "fromCSV"
    => /\ Len(probe.res[1]) = Len(probe.arg)
       /\ \A i \in 1..Len(probe.arg) :
            /\ probe.res[1][i].createdAt = probe.arg[i].createdAt
            /\ SameFields(probe.res[1][i], probe.arg[i], Same)

\* C19 amended: the same, except that every line break of a field comes back
\* as a space and that an empty createdAt comes back as the time of decoding.
C19_CsvRoundTripSpaced ==
  probe.fn = "fromCSV"
    => /\ Len(probe.res[1]) = Len(probe.arg)
       /\ \A i \in 1..Len(probe.arg) :
            /\ probe.res[1][i].createdAt = OrElse(Spaced(probe.arg[i].createdAt), nowISO)
            /\ SameFields(probe.res[1][i], probe.arg[i], Spaced)

\* two rows were encoded and decoded, one with a comma and double quotes in
\* its note, the other with a line break
C19_Witness ==
  /\ probe.fn = "fromCSV"
  /\ Len(probe.res[1]) = 2
  /\ probe.arg[1].note = <<"q", "\"", "\"", ",">>
  /\ probe.res[1][1].note = <<"q", "\"", "\"", ",">>
  /\ probe.arg[2].note = <<"x", "\n", "y">>
  /\ probe.res[1][2].note = <<"x", " ", "y">>
  /\ probe.arg[2].mics = << <<"L", ",", "R">> >>
  /\ probe.res[1][2].mics[1] = <<"L", ",", "R">>
  /\ probe.arg[2].createdAt = nowISO
  /\ probe.res[1][2].createdAt = nowISO

\* the number of lines of t that hold a character other than white space
NonEmptyLines(t) ==
  Cardinality({ i \in 1..Len(t) :
    /\ t[i] \notin {" ", "\t", "\n", "\r"}
    /\ \A j \in 1..(i - 1) :
         (\A k \in j..(i - 1) : t[k] # "\n") => t[j] \in {" ", "\t", "\r"} })

\* C20: the import of a CSV text with fewer than 2 non-empty lines decodes
\* to no row: importCSV signals it and leaves rows, draft and the history
\* stacks as they were.
C20_NoRowsImport ==
  (/\ lastOp \in {"csvLoaded", "csvNoRows"}
   /\ Len(before.reading) = 1
   /\ NonEmptyLines(before.reading[1]) < 2)
    => /\ lastOp = "csvNoRows"
       /\ rows = before.rows
       /\ draft = before.draft
       /\ past = before.past
       /\ future = before.future

\* a file with nothing but a header was imported into a list that held rows
C20_Witness ==
  /\ lastOp = "csvNoRows"
  /\ before.reading = <<CsvHeaderOnly>>
  /\ rows # <<>>
Ids(rs) == {rs[i].id : i \in 1..Len(rs)}

\* the draft editRow makes of the row r and the draft d it finds: scene and
\* cut split into magnitude and suffix, take parsed, the rest copied
ReshapedFrom(r, d) ==
  LET sc == splitNumAndSuffix(r.sceneNo)
      cu == splitNumAndSuffix(r.cutNo)
  IN [d EXCEPT !.fileNo = r.fileNo,
               !.sceneNum = Max({1, sc.num}), !.sceneSuffix = sc.suffix,
               !.cutNum = IF cu.num = -1 THEN -1 ELSE Max({1, cu.num}),
               !.cutSuffix = cu.suffix,
               !.takeNum = takeNumOf(r.takeNo),
               !.status = r.status, !.mics = r.mics, !.note = r.note]

\* editRow(id) of a present id has taken exactly that row out and has made
\* the draft of its fields, the file number, when the row has none, being the
\* one the auto-fill gives it (fill = TRUE) or left empty (fill = FALSE);
\* editRow of an absent id has changed nothing
ExtractionStep(fill) ==
  /\ lastOp = "editRow" =>
       \E i \in 1..Len(before.rows) :
         LET r == before.rows[i]
             d == ReshapedFrom(r, before.draft)
         IN /\ r.id \notin Ids(rows)
            /\ Len(rows) = Len(before.rows) - 1
            /\ \A j \in 1..Len(before.rows) :
                 j # i => \E k \in 1..Len(rows) : rows[k] = before.rows[j]
            /\ draft = IF fill /\ r.fileNo = <<>>
                       THEN [d EXCEPT !.fileNo = nextFileNo(rows)] ELSE d
  /\ lastOp = "editRowAbsent" =>
       /\ rows = before.rows
       /\ draft = before.draft
       /\ past = before.past
       /\ future = before.future
       /\ projects = before.projects

\* C22 as stated: editRow(id) for a present id removes exactly that row and
\* sets the draft to the row's fields reshaped; the row is absent from rows in
\* every later state (a commit mints a new id); editRow for an absent id
\* changes nothing.
C22_ExtractedStaysOut ==
  /\ ExtractionStep(FALSE)
  /\ \A id \in extracted : id \notin Ids(rows)

\* C22 amended: the same, except that a row without a file number leaves the
\* draft with the file number the auto-fill computes, and that the row comes
\* back when undo or redo restores a snapshot that holds it, and in no other
\* way.
C22_ExtractedUntilRestored ==
  /\ []ExtractionStep(TRUE)
  /\ [][\A id \in extracted :
          (id \notin Ids(rows) /\ id \in Ids(rows')) => lastOp' \in {"undo", "redo"}]_vars

\* a row with a cut suffix was extracted from a list of two, and a row without
\* a file number was extracted
C22_Witness ==
  /\ lastOp = "editRow"
  /\ Len(before.rows) = 2
  /\ draft.cutSuffix = <<"b">>
  /\ draft.cutNum = 3
  /\ draft.takeNum = 2
  /\ draft.fileNo = nextFileNo(rows)
  /\ before.draft.fileNo # draft.fileNo

\* undo has brought an extracted row back
C22_Restored ==
  lastOp = "undo" /\ \E id \in extracted : id \in Ids(rows) /\ id \notin Ids(before.rows)
\* C26: when a CSV import completes, the decoded rows come after every row
\* the list held just before, which are all kept in their order: the rows the
\* import started with (unless taken out since) and the rows added while the
\* file was read.
C26_MergedAfterAll ==
  lastOp = "csvLoaded" =>
    /\ Len(rows) > Len(before.rows)
    /\ SubSeq(rows, 1, Len(before.rows)) = before.rows
    /\ \A i \in (Len(before.rows) + 1)..Len(rows) :
         rows[i].id \notin Ids(before.rows) \cup Ids(before.readStart[1])

\* an import has completed onto a list that gained a row while the file was
\* read
C26_Witness ==
  /\ lastOp = "csvLoaded"
  /\ Ids(before.rows) \ Ids(before.readStart[1]) # {}
  /\ Ids(before.rows) \subseteq Ids(rows)
  /\ Len(rows) = Len(before.rows) + 2
\* C28: resetCounters sets the scene, cut and take numbers of the draft to 1,
\* the cut never to the sentinel, whatever the draft was, and leaves the rows
\* and the file number, status, mics and note of the draft as they were.
C28_ResetToOne ==
  lastOp = "resetCounters" =>
    /\ draft.sceneNum = 1
    /\ draft.cutNum = 1
    /\ draft.takeNum = 1
    /\ rows = before.rows
    /\ draft.fileNo = before.draft.fileNo
    /\ draft.status = before.draft.status
    /\ draft.mics = before.draft.mics
    /\ draft.note = before.draft.note

\* the counters were reset from a draft whose cut was the sentinel, with rows
\* in the list
C28_Witness ==
  /\ lastOp = "resetCounters"
  /\ before.draft.cutNum = -1
  /\ before.draft.takeNum > 1
  /\ rows # <<>>
\* C29 as stated: committing a draft with status OK and cut number 1 leaves a
\* draft whose cut is the sentinel and whose take is 1.
C29_OnlyAfterFirstCut ==
  (lastOp = "addRow" /\ before.draft.status = OK /\ before.draft.cutNum = 1)
    => draft.cutNum = -1 /\ draft.takeNum = 1

\* C29 amended: committing a draft with status OK and cut number 1 leaves a
\* draft whose cut is 2, with no suffix, and whose take is 1.
C29_SecondAfterFirstCut ==
  (lastOp = "addRow" /\ before.draft.status = OK /\ before.draft.cutNum = 1)
    => draft.cutNum = 2 /\ draft.cutSuffix = <<>> /\ draft.takeNum = 1

\* a draft with status OK, cut 1 and a take beyond the first was committed
C29_Witness ==
  /\ lastOp = "addRow"
  /\ before.draft.status = OK
  /\ before.draft.cutNum = 1
  /\ before.draft.takeNum > 1
  /\ Len(rows) = Len(before.rows) + 1

\* C30: addRow, delRow, editRow, a CSV import completing and resetCounters
\* leave every row that is in the list before and after (same id) with all
\* its fields as they were, and a confirmed delRow(id) takes out the row with
\* that id and no other.
C30_RowsNeverRewritten ==
  [][/\ lastOp' \in {"addRow", "addRowRejected", "delRow", "delRowCancelled", "editRow",
                     "editRowAbsent", "csvLoaded", "csvNoRows", "resetCounters"}
        => \A i \in 1..Len(rows), j \in 1..Len(rows') :
             rows[i].id = rows'[j].id => rows[i] = rows'[j]
     /\ \A i \in 1..Len(rows) :
          delRow(rows[i].id, TRUE)
            => /\ Ids(rows') = Ids(rows) \ {rows[i].id}
               /\ Len(rows') = Len(rows) - 1]_vars

\* a row was deleted from a list of three, of which the other two are still
\* in the list
C30_Witness ==
  /\ lastOp = "delRow"
  /\ Len(before.rows) = 3
  /\ Len(rows) = 2
  /\ Ids(rows) \subseteq Ids(before.rows)
\* C27: after a handler that changes rows and leaves the draft to the
\* auto-fill (a CSV import completing, a confirmed delRow), the draft is the
\* one before with its file number set to nextFileNo(rows) if that was empty,
\* and exactly the one before otherwise; the rows are those the handler left;
\* past and future are what the handler made them (untouched by the import,
\* one snapshot pushed by delRow). When rows did not change, an empty file
\* number stays empty.
C27_AutoFillOnlyWhenEmpty ==
  /\ lastOp \in {"csvLoaded", "delRow"} =>
       /\ rows # before.rows
       /\ draft = IF before.draft.fileNo = <<>>
                  THEN [before.draft EXCEPT !.fileNo = nextFileNo(rows)]
                  ELSE before.draft
  /\ lastOp = "csvLoaded" =>
       /\ past = before.past
       /\ future = before.future
       /\ SubSeq(rows, 1, Len(before.rows)) = before.rows
  /\ lastOp = "delRow" =>
       /\ past = Append(before.past, [rows |-> before.rows, draft |-> before.draft])
       /\ \A i \in 1..Len(rows) : \E j \in 1..Len(before.rows) : rows[i] = before.rows[j]
  /\ lastOp \in {"csvNoRows", "delRowCancelled"} =>
       /\ rows = before.rows
       /\ draft = before.draft

\* a CSV import completed while the file number was empty and the future
\* stack was not: the file number was filled, the stacks were left alone
C27_Witness ==
  /\ lastOp = "csvLoaded"
  /\ before.draft.fileNo = <<>>
  /\ draft.fileNo = todayPrefix \o <<"_", "0", "1", "0">>
  /\ future # <<>>
  /\ past = before.past
\* the text is not JSON, or is JSON of a value that is not an object: a
\* string, a number, a boolean or null
NotAnObjectText(t) ==
  LET r == JSONparse(t)
  IN ~r.ok \/ r.val.t \in {"string", "number", "boolean", "null"}

C23_RowsPersisted ==
  lastOp \in {"addRow", "delRow", "editRow", "csvLoaded", "undo", "redo"}
    => \E i \in 1..Len(projects) : projects[i].id = currentId /\ projects[i].rows = rows

\* C24: currentId is the id of exactly one project of the list.
C24_OneCurrentProject == Cardinality(findProject(projects, currentId)) = 1

\* C25: every row of the list has a status of OK, NG or KEEP and 8 mic
\* entries.
C25_RowsWellFormed ==
  \A i \in 1..Len(rows) : rows[i].status \in {OK, NG, KEEP} /\ Len(rows[i].mics) = 8

\* the first non-blank line of the text names none of the columns of a take
NoKnownColumn(t) ==
  LET lines == SelectSeq(splitLines(t), NonBlank)
      hs == split(lines[1], ",")
  IN /\ Len(lines) >= 2
     /\ \A i \in 1..Len(hs) :
          \A j \in 1..Len(CsvHeaders) : stripQuotes(hs[i]) # CsvHeaders[j]

\* C31: when the file of a CSV import has two or more non-empty lines and a
\* first line without any of the column names, the load is reported as
\* having no valid rows and the rows stay as they were.
C31_MalformedCsvMergesNothing ==
  (/\ lastOp \in {"csvLoaded", "csvNoRows"}
   /\ NoKnownColumn(before.reading[1]))
    => /\ lastOp = "csvNoRows"
       /\ rows = before.rows

NextFileNoReturned ==
  probe.fn \in {"nextFileNo", "nextFileNo(imported)"} /\ probe.res # <<>>

\* C33: what nextFileNo returns is six digits, an underscore and exactly
\* three digits.
C33_ThreeCounterDigits ==
  NextFileNoReturned
    => LET f == probe.res[1]
       IN /\ Len(f) = 10
          /\ AllDigits(SubSeq(f, 1, 6))
          /\ f[7] = "_"
          /\ AllDigits(SubSeq(f, 8, 10))

\* C40: what nextFileNo returns is the file number of none of the rows it
\* was given.
C40_FreshFileNo ==
  NextFileNoReturned
    => \A i \in 1..Len(probe.arg) : probe.arg[i].fileNo # probe.res[1]

\* C34: after undo or redo the rows on the page, which the persist effect
\* has written into the current project, share no row with the stored rows
\* of another project (rows only enter by commits here, each with an id of
\* its own).
C34_HistoryStaysInProject ==
  lastOp \in {"undo", "redo"}
    => \A i \in 1..Len(projects) :
         projects[i].id # currentId => Ids(projects[i].rows) \cap Ids(rows) = {}

\* C35: once a JSON import has loaded and switched to the imported project,
\* the project that was current until then is stored with the rows the page
\* held for it, the ones committed during the read included.
C35_InFlightCommitsKept ==
  (lastOp = "jsonLoaded" /\ findProject(before.projects, before.currentId) # {})
    => \E i \in 1..Len(projects) :
         projects[i].id = before.currentId /\ projects[i].rows = before.rows

\* C36: a delRow whose confirmation is declined leaves rows, draft and both
\* history stacks as they were.
C36_DeclinedDeleteChangesNothing ==
  lastOp = "delRowCancelled"
    => /\ rows = before.rows
       /\ draft = before.draft
       /\ past = before.past
       /\ future = before.future

\* C37: a press on the S# stepper leaves cut 1 without suffix and take 1 and
\* keeps the scene suffix; a press on the C# stepper leaves take 1 and keeps
\* scene, scene suffix and cut suffix; rows and both history stacks stay.
C37_SettersReset ==
  /\ lastOp \in {"sceneMinus", "scenePlus"}
       => /\ draft.cutNum = 1 /\ draft.cutSuffix = <<>> /\ draft.takeNum = 1
          /\ draft.sceneSuffix = before.draft.sceneSuffix
  /\ lastOp \in {"cutMinus", "cutPlus"}
       => /\ draft.takeNum = 1
          /\ draft.sceneNum = before.draft.sceneNum
          /\ draft.sceneSuffix = before.draft.sceneSuffix
          /\ draft.cutSuffix = before.draft.cutSuffix
  /\ lastOp \in {"sceneMinus", "scenePlus", "cutMinus", "cutPlus"}
       => /\ rows = before.rows
          /\ past = before.past
          /\ future = before.future
          /\ draft.fileNo = before.draft.fileNo
          /\ draft.status = before.draft.status

\* the scene was stepped from 1a to 2a with cut 3a and take 2 on the draft,
\* after a commit
C37_Witness ==
  /\ lastOp = "scenePlus"
  /\ before.draft.sceneNum = 1 /\ draft.sceneNum = 2
  /\ before.draft.sceneSuffix = <<"a">>
  /\ before.draft.cutNum = 3 /\ before.draft.cutSuffix = <<"a">>
  /\ before.draft.takeNum = 2
  /\ rows # <<>> /\ past # <<>>

\* the cut and the take of a row as numbers, the sentinel being -1
CutOf(r) == splitNumAndSuffix(r.cutNo).num
TakeOf(r) == parseInt(r.takeNo).val

\* C38: in a session of commits only, the rows have pairwise distinct
\* (sceneNo, cutNo, takeNo) and pairwise distinct fileNo, and of two rows
\* the one committed later has the larger (cut, take), the sentinel coming
\* before 1.
C38_CommitsDistinctAndIncreasing ==
  lastOp \in {"addRow", "setStatus"}
    => \A i, j \in 1..Len(rows) :
         i # j =>
           /\ <<rows[i].sceneNo, rows[i].cutNo, rows[i].takeNo>>
                # <<rows[j].sceneNo, rows[j].cutNo, rows[j].takeNo>>
           /\ rows[i].fileNo # rows[j].fileNo
           /\ rows[i].id < rows[j].id
                => \/ CutOf(rows[i]) < CutOf(rows[j])
                   \/ /\ CutOf(rows[i]) = CutOf(rows[j])
                      /\ TakeOf(rows[i]) < TakeOf(rows[j])

\* two commits from the sentinel: the take of the sentinel cut as NG, then
\* the next take as OK, the draft going on to cut 1
C38_Witness ==
  /\ lastOp = "addRow"
  /\ Len(rows) = 2
  /\ \A i \in 1..2 : rows[i].cutNo = OnlyToken
  /\ \E i \in 1..2 : rows[i].status = NG
  /\ \E i \in 1..2 : rows[i].status = OK
  /\ draft.cutNum = 1 /\ draft.takeNum = 1

\* the last two handlers were editRow of a row of the list and then addRow,
\* the run of mutations having started at the state editRow found
EditThenAdd ==
  /\ lastOp = "addRow"
  /\ run.n = 2 /\ run.u = 0
  /\ Len(before.rows) = Len(run.base.rows) - 1

\* C39: editRow of a row followed at once by addRow puts back a row with the
\* fileNo, sceneNo, cutNo, takeNo, status, mics and note of the row taken
\* out, and the other rows are those of before the edit.
C39_EditThenAddPutsBack ==
  EditThenAdd
    => LET base == run.base.rows
           gone == base[CHOOSE i \in 1..Len(base) : base[i].id \notin Ids(before.rows)]
           back == rows[CHOOSE i \in 1..Len(rows) : rows[i].id \notin Ids(before.rows)]
       IN /\ back.fileNo = gone.fileNo
          /\ back.sceneNo = gone.sceneNo
          /\ back.cutNo = gone.cutNo
          /\ back.takeNo = gone.takeNo
          /\ back.status = gone.status
          /\ back.mics = gone.mics
          /\ back.note = gone.note
          /\ back.id # gone.id
          /\ {rows[i] : i \in 1..Len(rows)} \ {back}
               = {base[i] : i \in 1..Len(base)} \ {gone}

\* a committed row with the cut 1a and status OK was taken out of a list of
\* two rows and put back, the draft having shown the cut 2 at the edit
C39_Witness ==
  /\ EditThenAdd
  /\ Len(rows) = 2
  /\ \E i \in 1..2 :
       /\ rows[i].id \notin Ids(before.rows)
       /\ rows[i].id = MaxId
       /\ rows[i].cutNo = <<"1", "a">>
       /\ rows[i].status = OK
  /\ run.base.draft.cutNum = 2
  /\ run.base.draft.cutSuffix = <<>>
====
